---- MODULE Spec2Model ----
(***************************************************************************)
(* Session orchestration of the document-chat application: the App         *)
(* component (src/unnamed/part_001), the gateway functions of              *)
(* src/services/geminiService.ts and the staging actions of                *)
(* src/components/WelcomeScreen.tsx.                                       *)
(*                                                                         *)
(* One action is one synchronous block of a handler: the code from an      *)
(* event (or from the resolution of an awaited promise) up to the next     *)
(* await.  All setState calls of a block are applied together, in order.   *)
(* An awaited call in flight is a record in `tasks` holding the values the *)
(* handler's closure captured.                                             *)
(***************************************************************************)
EXTENDS Integers, Sequences, FiniteSets, TLC

\* ---------------------------------------------------------------- bounds

MaxFiles == 2
MaxTasks == 2
MaxHistory == 4
MaxCreated == 1
MaxDocs == 2
MaxPolls == 1
MaxStaged == 3

\* ------------------------------------------------------------- constants

Null == "null"
Undefined == -1

Initializing == "Initializing"
Welcome == "Welcome"
Uploading == "Uploading"
Chatting == "Chatting"
ErrorStatus == "Error"

FileNames == {"manual.pdf"}
UserTexts == {"How do I reset it?"}

MsgSelectKeyFirst == "Please select your Gemini API Key first."
MsgInvalidKey == "The selected API key is invalid. Please select a different one and try again."
MsgLibraryFailed == "Failed to load your library. Please check your network or API key."
MsgNotInitialized == "Gemini AI client not initialized. Please wait for the API key to load."
MsgNameMissing == "Failed to create RAG store: name is missing."
MsgApology == "Sorry, I encountered an error. Please try again."
MsgNoAnswer == "No answer generated."
MsgDeleteFailed == "Failed to delete the document set."

\* Messages a remote call can reject with.
RemoteErrors == {"API key not valid. Please pass a valid API key.",
                 "Requested entity was not found.",
                 "503 Service Unavailable"}

\* A variant that tests for 'api key not valid' only.
CredentialShapedKeyOnly(msg) == msg \in {"API key not valid. Please pass a valid API key."}

\* err.message.toLowerCase().includes('api key not valid') ||
\*   ....includes('requested entity was not found'), on the messages above and
\* on the messages the gateway itself throws.
CredentialShaped(msg) ==
    msg \in {"API key not valid. Please pass a valid API key.",
             "Requested entity was not found."}

\* --------------------------------------------------------------- helpers

RECURSIVE SeqToSet(_)
SeqToSet(s) == IF s = <<>> THEN {} ELSE {Head(s)} \cup SeqToSet(Tail(s))

\* A variant that counts every file among the others.
friendlyNameCountsAll(fs) ==
    IF Len(fs) = 1 THEN fs[1]
    ELSE fs[1] \o " + " \o ToString(Len(fs)) \o " others"

\* friendlyName of handleUploadAndStartChat, for a non-empty staging sequence.
friendlyName(fs) ==
    IF Len(fs) = 1 THEN fs[1]
    ELSE fs[1] \o " + " \o ToString(Len(fs) - 1) \o " others"

\* fileName of the progress record while file i of fs is uploading.
progressFileName(i, fs) ==
    "(" \o ToString(i) \o "/" \o ToString(Len(fs)) \o ") " \o fs[i]

\* `${message}: ${err.message}` of handleError.
errorText(message, msg) == message \o ": " \o msg

\* ------------------------------------------------- geminiService gateway

\* ensureInitialized: the client exists afterwards iff it existed or
\* process.env.API_KEY is set; otherwise the call throws MsgNotInitialized.
ensureInitialized(aiNow, key) == aiNow \/ key

\* listRagStores' map over the array found in the response.
RECURSIVE mapStores(_)
mapStores(raw) ==
    IF raw = <<>> THEN <<>>
    ELSE <<[name |-> Head(raw).name,
            displayName |-> IF Head(raw).displayName # "" THEN Head(raw).displayName
                            ELSE IF Head(raw).display_name # "" THEN Head(raw).display_name
                            ELSE "Untitled Store"]>> \o mapStores(Tail(raw))

\* What ai.models.generateContent can hand generateExampleQuestions: a
\* rejection, no text, text that is not JSON, JSON that is no array, or an
\* array of items whose questions hold strings and non-strings.
Str(v) == [isString |-> TRUE, v |-> v]
NonStr(v) == [isString |-> FALSE, v |-> v]
QuestionResponses ==
    { [kind |-> "reject", items |-> <<>>],
      [kind |-> "notext", items |-> <<>>],
      [kind |-> "badjson", items |-> <<>>],
      [kind |-> "object", items |-> <<>>],
      [kind |-> "array", items |-> << <<Str("How do I reset it?"), Str("What is the warranty?")>> >>],
      [kind |-> "array", items |-> << <<NonStr("42"), Str("What is the warranty?")>>, <<>> >>] }

\* parsedData.flatMap(item => (item.questions || [])).filter(q => typeof q === 'string')
RECURSIVE flatMapQuestions(_)
flatMapQuestions(items) ==
    IF items = <<>> THEN <<>> ELSE Head(items) \o flatMapQuestions(Tail(items))

RECURSIVE filterStrings(_)
filterStrings(qs) ==
    IF qs = <<>> THEN <<>>
    ELSE (IF Head(qs).isString THEN <<Head(qs).v>> ELSE <<>>) \o filterStrings(Tail(qs))

\* A variant that falls back to a stock question.
generateExampleQuestionsDefault(resp) ==
    IF resp.kind = "array" THEN filterStrings(flatMapQuestions(resp.items))
    ELSE <<"What is this document about?">>

\* generateExampleQuestions once the client exists: every failure inside its
\* try block yields the empty list.
generateExampleQuestions(resp) ==
    IF resp.kind = "array" THEN filterStrings(flatMapQuestions(resp.items)) ELSE <<>>

\* What generateContent can hand fileSearch on success: text (possibly empty)
\* and grounding chunks (possibly absent).
AnswerResponses ==
    { [text |-> "Hold the button for 5 s.", hasChunks |-> TRUE, chunks |-> <<"manual.pdf#3">>],
      [text |-> "", hasChunks |-> FALSE, chunks |-> <<>>] }

\* fileSearch's QueryResult.
fileSearch(resp) ==
    [text |-> IF resp.text # "" THEN resp.text ELSE MsgNoAnswer,
     groundingChunks |-> IF resp.hasChunks THEN resp.chunks ELSE <<>>]

\* ------------------------------------------------------- message records

userMessage(text) == [role |-> "user", text |-> text, groundingChunks |-> <<>>]
\* A variant that drops the citations.
modelMessageNoChunks(result) ==
    [role |-> "model", text |-> result.text, groundingChunks |-> <<>>]
modelMessage(result) ==
    [role |-> "model", text |-> result.text, groundingChunks |-> result.groundingChunks]
errorMessage == [role |-> "model", text |-> MsgApology, groundingChunks |-> <<>>]

\* ------------------------------------------------------ progress records

NoProgress == <<>>
Progress(c, t, m, f) == <<[current |-> c, total |-> t, message |-> m, fileName |-> f]>>

\* const totalSteps = files.length + 2
totalSteps(fs) == Len(fs) + 2

\* setUploadProgress(prev => ({...prev!, current, message, fileName})): the
\* total is inherited from prev and is undefined when prev is null.
spreadProgress(prev, c, m, f) ==
    Progress(c, IF prev = NoProgress THEN Undefined ELSE prev[1].total, m, f)

\* A variant whose loop sets current: i.
loopCurrentOffByOne(k) == k - 1

\* current: i + 1 of the loop body, for the 1-based position k = i + 1.
loopCurrent(k) == k

\* The progress set after the loop ends.
registeredProgress(fs) ==
    Progress(Len(fs) + 1, totalSteps(fs), "Registered! updating library...", "")

\* A variant that adds the new store at the end of the list.
insertOptimisticAtEnd(newStore, prev) == prev \o <<newStore>>

\* setExistingStores(prev => [newStore, ...prev])
insertOptimistic(newStore, prev) == <<newStore>> \o prev

\* ------------------------------------------------------------------ state

VARIABLES
    status, isApiKeySelected, apiKeyError, error, uploadProgress,
    activeRagStoreName, documentName, chatHistory, isQueryLoading,
    exampleQuestions, files, existingStores, isLoadingStores, libraryError,
    ai,             \* geminiService's module-level client exists
    envApiKey,      \* process.env.API_KEY is set
    aistudio,       \* window.aistudio is present
    mounted,        \* the App component's effects have run
    remoteStores,   \* the provider's file search stores
    remoteCreated,  \* how many stores the provider has created for this session
    tasks,          \* awaited calls in flight, with what their closures captured
    lastEvent,      \* history: the block that ran last and what its awaited call returned
    confirmState,   \* WelcomeScreen: the confirmation dialog
    managingStore,  \* WelcomeScreen: name of the store whose files are managed, or Null
    storeDocuments, \* WelcomeScreen: the documents listed in the management view
    isLoadingDocs,  \* WelcomeScreen
    processingFile, \* WelcomeScreen
    remoteDocs      \* the provider's documents, each in its store

appVars == <<status, isApiKeySelected, apiKeyError, error, uploadProgress,
             activeRagStoreName, documentName, chatHistory, isQueryLoading,
             exampleQuestions, files, existingStores, isLoadingStores, libraryError>>
envVars == <<envApiKey, aistudio>>
screenVars == <<confirmState, managingStore, storeDocuments, isLoadingDocs, processingFile>>
vars == <<appVars, ai, envVars, mounted, remoteStores, remoteCreated, tasks, lastEvent,
          screenVars, remoteDocs>>

\* A task record: kind is the handler, pc the call it awaits; files, name,
\* store, i, st and msg are what the handler's closure holds.  adv is
\* history: the `current` of every setUploadProgress call of a create run.
\* polls counts the operations.get calls uploadToRagStore has made for the
\* file it is uploading; MaxPolls stands for MaxPolls or more.
Task(tid, kind, pc) ==
    [tid |-> tid, kind |-> kind, pc |-> pc, files |-> <<>>, name |-> "", store |-> "",
     i |-> 0, adv |-> <<>>, st |-> FALSE, msg |-> "", snap |-> <<>>, polls |-> 0]
NoTask == Task(0, "none", "none")

Event(op, msg, q) == [op |-> op, msg |-> msg, q |-> q]

FreeTids == (1..MaxTasks) \ {t.tid : t \in tasks}
NewTid == CHOOSE i \in FreeTids : \A j \in FreeTids : i <= j
CanSpawn == FreeTids # {}

InitialRemotes ==
    { <<>>,
      <<[name |-> "store/7", displayName |-> "Warranty", display_name |-> ""]>> }

\* The documents the provider holds in store/7 when that store exists.
InitialDocs ==
    << [store |-> "store/7", name |-> "store/7/doc/1", displayName |-> "warranty.pdf"],
       [store |-> "store/7", name |-> "store/7/doc/2", displayName |-> "terms.pdf"] >>

\* useState of confirmState (WelcomeScreen).
closedConfirm == [isOpen |-> FALSE, type |-> "store", targetId |-> "", displayName |-> ""]

\* The handlers of WelcomeScreen that await: their setState calls are lost
\* once the component has unmounted.
ScreenKinds == {"files", "deleteFile", "addFile", "sample"}

Init ==
    /\ status = Initializing
    /\ isApiKeySelected = FALSE
    /\ apiKeyError = Null
    /\ error = Null
    /\ uploadProgress = NoProgress
    /\ activeRagStoreName = Null
    /\ documentName = ""
    /\ chatHistory = <<>>
    /\ isQueryLoading = FALSE
    /\ exampleQuestions = <<>>
    /\ files = <<>>
    /\ existingStores = <<>>
    /\ isLoadingStores = FALSE
    /\ libraryError = Null
    /\ ai = FALSE
    /\ envApiKey \in BOOLEAN
    /\ aistudio \in BOOLEAN
    /\ mounted = FALSE
    /\ remoteStores \in InitialRemotes
    /\ remoteCreated = 0
    /\ tasks = {}
    /\ lastEvent = Event("init", "", <<>>)
    /\ confirmState = closedConfirm
    /\ managingStore = Null
    /\ storeDocuments = <<>>
    /\ isLoadingDocs = FALSE
    /\ processingFile = Null
    /\ remoteDocs = IF remoteStores = <<>> THEN <<>> ELSE InitialDocs

\* ------------------------------------------------------ shared fragments

\* handleError: setError(`${message}: ${err.message}`); setStatus(Error).
handleError(message, msg) ==
    /\ error' = errorText(message, msg)
    /\ status' = ErrorStatus

\* renderContent renders WelcomeScreen only while the status is Welcome: when
\* the status is anything else the component is unmounted and its state is
\* gone; the next mount starts from the initial values.
keepScreen ==
    IF status' = Welcome THEN UNCHANGED screenVars
    ELSE /\ confirmState' = closedConfirm
         /\ managingStore' = Null
         /\ storeDocuments' = <<>>
         /\ isLoadingDocs' = FALSE
         /\ processingFile' = Null

\* The tasks after a block that may have changed the status: the awaiting
\* handlers of an unmounted WelcomeScreen keep running, marked st.
rendered(ts) ==
    IF status' = Welcome THEN ts
    ELSE {IF t.kind \in ScreenKinds THEN [t EXCEPT !.st = TRUE] ELSE t : t \in ts}

\* The refresh task loadExistingStores leaves in flight.  listRagStores runs
\* ensureInitialized before it sends the request.  The closure holds the
\* status st of its render, of which the finally block reads only
\* `status === AppStatus.Initializing`: the task keeps that comparison.
refreshTaskAs(tid, st, aiAfter) ==
    [Task(tid, "refresh", IF aiAfter THEN "list" ELSE "threw") EXCEPT
        !.st = (st = Initializing)]
refreshTask(st, aiAfter) == refreshTaskAs(NewTid, st, aiAfter)

\* ------------------------------------------------------------ App: mount

\* The first effects: checkApiKey() is called, and with isApiKeySelected
\* false the second effect sets Welcome.
Mount ==
    /\ ~mounted
    /\ mounted' = TRUE
    /\ status' = Welcome
    /\ lastEvent' = Event("mount", "", <<>>)
    /\ UNCHANGED <<isApiKeySelected, apiKeyError, error, uploadProgress,
                   activeRagStoreName, documentName, chatHistory, isQueryLoading,
                   exampleQuestions, files, existingStores, isLoadingStores,
                   libraryError, ai, envVars, remoteStores, remoteCreated, tasks>>
    /\ keepScreen
    /\ UNCHANGED remoteDocs

\* ------------------------------------------------------- Credential Gate

\* A variant of checkApiKey whose catch block leaves the flag as it is.
selectedAfterCheckKeepsOnThrow(capable, hasKey, prev) ==
    IF ~capable \/ hasKey = "throw" THEN prev ELSE hasKey = "true"

\* The flag after checkApiKey: untouched without window.aistudio, else what
\* hasSelectedApiKey reported, false when it rejected.
selectedAfterCheck(capable, hasKey, prev) ==
    IF ~capable THEN prev ELSE hasKey = "true"

\* The body of checkApiKey once hasSelectedApiKey has settled, and the
\* effect on [isApiKeySelected], which runs when the flag changed.  hasKey is
\* what hasSelectedApiKey reported, "throw" when it rejected.  t is the
\* handleSelectKey task that awaited the check and ends with it, NoTask when
\* checkApiKey was called by an event listener; src names the caller.
setIsApiKeySelected(hasKey, t, src) ==
    LET flag == selectedAfterCheck(aistudio, hasKey, isApiKeySelected)
        rest == tasks \ {t}
    IN /\ isApiKeySelected' = flag
       /\ IF flag = isApiKeySelected
          THEN /\ UNCHANGED <<status, ai, isLoadingStores, libraryError>>
               /\ tasks' = rest
               /\ lastEvent' = Event("checkApiKey", src, <<hasKey>>)
          ELSE IF flag
          THEN \* geminiService.initialize(); loadExistingStores()
               /\ t # NoTask \/ CanSpawn
               /\ ai' = ensureInitialized(ai, envApiKey)
               /\ isLoadingStores' = TRUE
               /\ libraryError' = Null
               /\ tasks' = rest \cup {refreshTaskAs(IF t # NoTask THEN t.tid ELSE NewTid,
                                                    status, ai')}
               /\ lastEvent' = Event("keySelected", src, <<hasKey>>)
               /\ UNCHANGED status
          ELSE /\ status' = Welcome
               /\ tasks' = rest
               /\ lastEvent' = Event("keyLost", src, <<hasKey>>)
               /\ UNCHANGED <<ai, isLoadingStores, libraryError>>

\* checkApiKey resolves (mount, window focus, tab visible again).
checkApiKey(hasKey) ==
    /\ mounted
    /\ setIsApiKeySelected(hasKey, NoTask, "")
    /\ UNCHANGED <<apiKeyError, error, uploadProgress, activeRagStoreName,
                   documentName, chatHistory, isQueryLoading, exampleQuestions,
                   files, existingStores, envVars, mounted, remoteStores, remoteCreated>>
    /\ keepScreen
    /\ UNCHANGED remoteDocs

\* --------------------------------------------------------- Library Cache

\* The refresh button of the library panel.
loadExistingStores ==
    /\ mounted /\ status = Welcome /\ ~isLoadingStores
    /\ CanSpawn
    /\ ai' = ensureInitialized(ai, envApiKey)
    /\ isLoadingStores' = TRUE
    /\ libraryError' = Null
    /\ tasks' = tasks \cup {refreshTask(status, ai')}
    /\ lastEvent' = Event("refresh", "", <<>>)
    /\ UNCHANGED <<status, isApiKeySelected, apiKeyError, error, uploadProgress,
                   activeRagStoreName, documentName, chatHistory, isQueryLoading,
                   exampleQuestions, files, existingStores, envVars, mounted,
                   remoteStores, remoteCreated>>
    /\ keepScreen
    /\ UNCHANGED remoteDocs

\* The provider answers a list request with the stores it holds then.
listRagStoresAnswered(t) ==
    /\ t.kind = "refresh" /\ t.pc = "list"
    /\ tasks' = (tasks \ {t}) \cup {[t EXCEPT !.pc = "listed", !.snap = mapStores(remoteStores)]}
    /\ lastEvent' = Event("listAnswered", "", <<>>)
    /\ UNCHANGED <<appVars, ai, envVars, mounted, remoteStores, remoteCreated>>
    /\ keepScreen
    /\ UNCHANGED remoteDocs

\* The finally block of loadExistingStores.
loadFinally(t) ==
    /\ isLoadingStores' = FALSE
    /\ status' = IF t.st THEN Welcome ELSE status

\* A variant that adds the fetched stores to the cache.
mergeCache(prev, stores) == prev \o stores

\* setExistingStores(stores): the cache after a fetch, from the cache prev.
replaceCache(prev, stores) == stores

\* await listRagStores() resolved: setExistingStores(stores).  The event
\* tells whether the cache changed.
loadExistingStoresResolved(t) ==
    /\ t.kind = "refresh" /\ t.pc = "listed"
    /\ existingStores' = replaceCache(existingStores, t.snap)
    /\ loadFinally(t)
    /\ tasks' = tasks \ {t}
    /\ lastEvent' = Event("refreshDone",
                          IF existingStores' = existingStores THEN "same" ELSE "changed", <<>>)
    /\ UNCHANGED <<isApiKeySelected, apiKeyError, error, uploadProgress,
                   activeRagStoreName, documentName, chatHistory, isQueryLoading,
                   exampleQuestions, files, libraryError, ai, envVars, mounted,
                   remoteStores, remoteCreated>>
    /\ keepScreen
    /\ UNCHANGED remoteDocs

\* await listRagStores() rejected (the request failed, or ensureInitialized threw).
loadExistingStoresRejected(t) ==
    /\ t.kind = "refresh" /\ t.pc \in {"list", "threw"}
    /\ libraryError' = MsgLibraryFailed
    /\ loadFinally(t)
    /\ tasks' = tasks \ {t}
    /\ lastEvent' = Event("refreshFailed", "", <<>>)
    /\ UNCHANGED <<isApiKeySelected, apiKeyError, error, uploadProgress,
                   activeRagStoreName, documentName, chatHistory, isQueryLoading,
                   exampleQuestions, files, existingStores, ai, envVars, mounted,
                   remoteStores, remoteCreated>>
    /\ keepScreen
    /\ UNCHANGED remoteDocs

\* ----------------------------------------------------------- staging set

\* handleFileChange / handleDrop with one file.
addFile(f) ==
    /\ mounted /\ status = Welcome
    /\ Len(files) < MaxFiles
    /\ files' = Append(files, f)
    /\ lastEvent' = Event("addFile", "", <<>>)
    /\ UNCHANGED <<status, isApiKeySelected, apiKeyError, error, uploadProgress,
                   activeRagStoreName, documentName, chatHistory, isQueryLoading,
                   exampleQuestions, existingStores, isLoadingStores, libraryError,
                   ai, envVars, mounted, remoteStores, remoteCreated, tasks>>
    /\ keepScreen
    /\ UNCHANGED remoteDocs

\* handleRemoveFile(indexToRemove).
handleRemoveFile(k) ==
    /\ mounted /\ status = Welcome
    /\ k \in 1..Len(files)
    /\ files' = SubSeq(files, 1, k - 1) \o SubSeq(files, k + 1, Len(files))
    /\ lastEvent' = Event("removeFile", "", <<>>)
    /\ UNCHANGED <<status, isApiKeySelected, apiKeyError, error, uploadProgress,
                   activeRagStoreName, documentName, chatHistory, isQueryLoading,
                   exampleQuestions, existingStores, isLoadingStores, libraryError,
                   ai, envVars, mounted, remoteStores, remoteCreated, tasks>>
    /\ keepScreen
    /\ UNCHANGED remoteDocs

\* ------------------------------------------- create-store (App, 130-197)

\* A variant without the credential guard.
uploadGuardFilesOnly(keySelected, fs) == IF Len(fs) = 0 THEN "noFiles" ELSE "run"

\* The two guards at the top of handleUploadAndStartChat: "noKey" rejects
\* with a field-level message, "noFiles" returns silently, "run" proceeds.
uploadGuard(keySelected, fs) ==
    IF ~keySelected THEN "noKey"
    ELSE IF Len(fs) = 0 THEN "noFiles"
    ELSE "run"

\* handleUploadAndStartChat up to `await createRagStore(friendlyName)`.  It
\* is the onUpload prop of the welcome screen.
handleUploadAndStartChat ==
    /\ mounted /\ status = Welcome
    /\ LET g == uploadGuard(isApiKeySelected, files) IN
       CASE g = "noKey" ->
              /\ apiKeyError' = MsgSelectKeyFirst
              /\ lastEvent' = Event("uploadNoKey", "", <<>>)
              /\ UNCHANGED <<status, uploadProgress, ai, tasks>>
         [] g = "noFiles" ->
              /\ lastEvent' = Event("uploadNoFiles", "", <<>>)
              /\ UNCHANGED <<status, apiKeyError, uploadProgress, ai, tasks>>
         [] OTHER ->
              /\ CanSpawn
              /\ apiKeyError' = Null
              /\ status' = Uploading
              /\ uploadProgress' = Progress(0, totalSteps(files), "Creating document index...", Null)
              /\ ai' = ensureInitialized(ai, envApiKey)
              /\ LET t == [Task(NewTid, "create", IF ai' THEN "create" ELSE "threw") EXCEPT
                              !.files = files,
                              !.name = friendlyName(files),
                              !.adv = <<0>>]
                 IN /\ tasks' = rendered(tasks \cup {t})
                    /\ lastEvent' = Event("uploadStart", "", <<>>)
    /\ UNCHANGED <<isApiKeySelected, error, activeRagStoreName, documentName,
                   chatHistory, isQueryLoading, exampleQuestions, files,
                   existingStores, isLoadingStores, libraryError, envVars, mounted,
                   remoteStores, remoteCreated>>
    /\ keepScreen
    /\ UNCHANGED remoteDocs

\* The id the provider gives its next store.
freshStoreName == "store/" \o ToString(41 + remoteCreated + 1)

\* await createRagStore resolved with the new store's name: lines 156-165,
\* up to the await of the first upload.
createRagStoreResolved(t) ==
    /\ t.kind = "create" /\ t.pc = "create"
    /\ remoteCreated < MaxCreated
    /\ remoteStores' = Append(remoteStores,
                              [name |-> freshStoreName, displayName |-> t.name, display_name |-> ""])
    /\ remoteCreated' = remoteCreated + 1
    /\ uploadProgress' =
           spreadProgress(Progress(1, totalSteps(t.files), "Generating embeddings...", Null),
                          loopCurrent(1), "Generating embeddings...", progressFileName(1, t.files))
    /\ LET u == [t EXCEPT !.pc = "upload", !.store = freshStoreName, !.i = 1,
                          !.adv = t.adv \o <<1, uploadProgress'[1].current>>]
       IN /\ tasks' = (tasks \ {t}) \cup {u}
          /\ lastEvent' = Event("created", "", <<>>)
    /\ UNCHANGED <<status, isApiKeySelected, apiKeyError, error, activeRagStoreName,
                   documentName, chatHistory, isQueryLoading, exampleQuestions, files,
                   existingStores, isLoadingStores, libraryError, ai, envVars, mounted>>
    /\ keepScreen
    /\ UNCHANGED remoteDocs

\* The resource name the provider gives the document made from file t.i.
uploadedDocName(t) == t.store \o "/doc/" \o ToString(t.i)

\* A variant of the loop condition that never polls.
pollAgainNever(done, polls) == FALSE

\* A variant of the loop condition that gives up after MaxPolls polls.
pollAgainCapped(done, polls) == ~done /\ polls < MaxPolls

\* while (!op.done) of uploadToRagStore.
\* polls is how often the loop has polled; the condition does not read it.
pollAgain(done, polls) == ~done

\* The awaited call of uploadToRagStore (the upload request, or the
\* operations.get of the latest poll) returned an operation that is not
\* done: delay(3000) and the next operations.get.
uploadToRagStorePolling(t) ==
    /\ t.kind \in {"create", "addFile"} /\ t.pc = "upload"
    /\ pollAgain(FALSE, t.polls)
    /\ tasks' = (tasks \ {t}) \cup
                 {[t EXCEPT !.polls = IF t.polls < MaxPolls THEN t.polls + 1 ELSE MaxPolls]}
    /\ lastEvent' = Event("polling", "", <<>>)
    /\ UNCHANGED <<appVars, ai, envVars, mounted, remoteStores, remoteCreated, remoteDocs>>
    /\ keepScreen

\* await uploadToRagStore resolved for file t.i: the awaited call returned
\* an operation whose done ends the loop; the provider holds the document
\* once the operation is done.  Then the next loop iteration of
\* handleUploadAndStartChat up to its await, or, after the last file, lines
\* 168-170 up to the delay.
uploadToRagStoreResolved(t, done) ==
    /\ t.kind = "create" /\ t.pc = "upload"
    /\ ~pollAgain(done, t.polls)
    /\ IF t.i < Len(t.files)
       THEN /\ uploadProgress' = spreadProgress(uploadProgress, loopCurrent(t.i + 1),
                                                "Generating embeddings...",
                                                progressFileName(t.i + 1, t.files))
            /\ LET u == [t EXCEPT !.i = t.i + 1, !.polls = 0,
                                  !.adv = Append(t.adv, uploadProgress'[1].current)]
               IN /\ tasks' = (tasks \ {t}) \cup {u}
                  /\ lastEvent' = Event("uploaded", "", <<>>)
       ELSE /\ uploadProgress' = registeredProgress(t.files)
            /\ LET u == [t EXCEPT !.pc = "delay",
                                  !.adv = Append(t.adv, uploadProgress'[1].current)]
               IN /\ tasks' = (tasks \ {t}) \cup {u}
                  /\ lastEvent' = Event("registered", "", <<>>)
    /\ UNCHANGED <<status, isApiKeySelected, apiKeyError, error, activeRagStoreName,
                   documentName, chatHistory, isQueryLoading, exampleQuestions, files,
                   existingStores, isLoadingStores, libraryError, ai, envVars, mounted,
                   remoteStores, remoteCreated>>
    /\ remoteDocs' = IF done
                      THEN Append(remoteDocs, [store |-> t.store, name |-> uploadedDocName(t),
                                               displayName |-> t.files[t.i]])
                      ELSE remoteDocs
    /\ keepScreen

\* The 800 ms delay elapsed: lines 172-178 and the finally block.
createRunFinished(t) ==
    /\ t.kind = "create" /\ t.pc = "delay"
    /\ existingStores' = insertOptimistic([name |-> t.store, displayName |-> t.name], existingStores)
    /\ files' = <<>>
    /\ status' = Welcome
    /\ uploadProgress' = NoProgress
    /\ tasks' = tasks \ {t}
    /\ lastEvent' = Event("createDone", "", <<>>)
    /\ UNCHANGED <<isApiKeySelected, apiKeyError, error, activeRagStoreName,
                   documentName, chatHistory, isQueryLoading, exampleQuestions,
                   isLoadingStores, libraryError, ai, envVars, mounted,
                   remoteStores, remoteCreated>>
    /\ keepScreen
    /\ UNCHANGED remoteDocs

\* The messages the awaited call of a create task can reject with.
createRejections(t) ==
    IF t.pc = "threw" THEN {MsgNotInitialized}
    ELSE IF t.pc = "create" THEN RemoteErrors \cup {MsgNameMissing}
    ELSE IF t.pc = "upload" THEN RemoteErrors
    ELSE {}

\* A variant of the catch block that also clears the staging set.
createRunFailedDrains(t, msg) ==
    /\ t.kind = "create" /\ msg \in createRejections(t)
    /\ IF CredentialShaped(msg)
       THEN /\ apiKeyError' = MsgInvalidKey
            /\ isApiKeySelected' = FALSE
            /\ status' = Welcome
            /\ UNCHANGED error
       ELSE /\ handleError("Failed to upload files", msg)
            /\ UNCHANGED <<apiKeyError, isApiKeySelected>>
    /\ files' = <<>>
    /\ uploadProgress' = NoProgress
    /\ tasks' = rendered(tasks \ {t})
    /\ lastEvent' = Event(IF t.pc = "upload" THEN "uploadRejected" ELSE "createRejected", msg, <<>>)
    /\ UNCHANGED <<activeRagStoreName, documentName, chatHistory, isQueryLoading,
                   exampleQuestions, existingStores, isLoadingStores,
                   libraryError, ai, envVars, mounted, remoteStores, remoteCreated>>
    /\ keepScreen
    /\ UNCHANGED remoteDocs

\* The catch block (184-193) and the finally block (194-196).  Clearing the
\* credential flag re-runs the effect on [isApiKeySelected], which sets
\* Welcome as well.
createRunFailed(t, msg) ==
    /\ t.kind = "create" /\ msg \in createRejections(t)
    /\ IF CredentialShaped(msg)
       THEN /\ apiKeyError' = MsgInvalidKey
            /\ isApiKeySelected' = FALSE
            /\ status' = Welcome
            /\ UNCHANGED error
       ELSE /\ handleError("Failed to upload files", msg)
            /\ UNCHANGED <<apiKeyError, isApiKeySelected>>
    /\ uploadProgress' = NoProgress
    /\ tasks' = rendered(tasks \ {t})
    /\ lastEvent' = Event(IF t.pc = "upload" THEN "uploadRejected" ELSE "createRejected", msg, <<>>)
    /\ UNCHANGED <<activeRagStoreName, documentName, chatHistory, isQueryLoading,
                   exampleQuestions, files, existingStores, isLoadingStores,
                   libraryError, ai, envVars, mounted, remoteStores, remoteCreated>>
    /\ keepScreen
    /\ UNCHANGED remoteDocs

\* ---------------------------------------- select-existing (App, 199-219)

\* handleSelectExistingStore up to `await generateExampleQuestions`, for a
\* store of the rendered library list.  generateExampleQuestions runs
\* ensureInitialized outside its try block.
handleSelectExistingStore(k) ==
    /\ mounted /\ status = Welcome
    /\ k \in 1..Len(existingStores)
    /\ CanSpawn
    /\ apiKeyError' = Null
    /\ status' = Uploading
    /\ uploadProgress' = Progress(1, 1, "Loading existing session...", Null)
    /\ activeRagStoreName' = existingStores[k].name
    /\ documentName' = existingStores[k].displayName
    /\ ai' = ensureInitialized(ai, envApiKey)
    /\ LET t == [Task(NewTid, "select", IF ai' THEN "questions" ELSE "threw") EXCEPT
                    !.store = existingStores[k].name]
       IN /\ tasks' = rendered(tasks \cup {t})
          /\ lastEvent' = Event("selectStart", "", <<>>)
    /\ UNCHANGED <<isApiKeySelected, error, chatHistory, isQueryLoading,
                   exampleQuestions, files, existingStores, isLoadingStores,
                   libraryError, envVars, mounted, remoteStores, remoteCreated>>
    /\ keepScreen
    /\ UNCHANGED remoteDocs

\* await generateExampleQuestions settled.  It resolves with the questions
\* (lines 210-213), whatever generateContent produced, a rejection included;
\* it rejects only when ensureInitialized, which is outside its try block,
\* threw (catch at 214-215).  The finally block follows either way.
handleSelectExistingStoreSettled(t, resp) ==
    /\ t.kind = "select"
    /\ IF t.pc = "questions"
       THEN /\ exampleQuestions' = generateExampleQuestions(resp)
            /\ chatHistory' = <<>>
            /\ status' = Chatting
            /\ lastEvent' = Event("selectDone", resp.kind, exampleQuestions')
            /\ UNCHANGED error
       ELSE /\ handleError("Failed to load existing session", MsgNotInitialized)
            /\ lastEvent' = Event("selectFailed", "", <<>>)
            /\ UNCHANGED <<exampleQuestions, chatHistory>>
    /\ uploadProgress' = NoProgress
    /\ tasks' = rendered(tasks \ {t})
    /\ UNCHANGED <<isApiKeySelected, apiKeyError, activeRagStoreName, documentName,
                   isQueryLoading, files, existingStores, isLoadingStores,
                   libraryError, ai, envVars, mounted, remoteStores, remoteCreated>>
    /\ keepScreen
    /\ UNCHANGED remoteDocs

\* ------------------------------------------------ chat (App, 248-284)

\* Sends in flight.
sendTasks == {t \in tasks : t.kind = "send"}

\* A variant that takes every value for an active store.
hasActiveStoreAlways(name) == TRUE

\* `activeRagStoreName` as a condition (line 260): null is falsy.
hasActiveStore(name) == name # Null

\* handleSendMessage up to `await fileSearch`; it is the onSendMessage prop
\* of the chat screen.
handleSendMessage(text) ==
    /\ mounted /\ status = Chatting
    /\ IF ~hasActiveStore(activeRagStoreName)
       THEN /\ lastEvent' = Event("sendNoStore", "", <<>>)
            /\ UNCHANGED <<chatHistory, isQueryLoading, ai, tasks>>
       ELSE /\ CanSpawn
            /\ Len(chatHistory) + Cardinality(sendTasks) + 2 <= MaxHistory
            /\ chatHistory' = Append(chatHistory, userMessage(text))
            /\ isQueryLoading' = TRUE
            /\ ai' = ensureInitialized(ai, envApiKey)
            /\ LET t == [Task(NewTid, "send", IF ai' THEN "query" ELSE "threw") EXCEPT
                            !.store = activeRagStoreName, !.msg = text]
               IN /\ tasks' = tasks \cup {t}
                  /\ lastEvent' = Event("sendStart", "", <<>>)
    /\ UNCHANGED <<status, isApiKeySelected, apiKeyError, error, uploadProgress,
                   activeRagStoreName, documentName, exampleQuestions, files,
                   existingStores, isLoadingStores, libraryError, envVars, mounted,
                   remoteStores, remoteCreated>>
    /\ keepScreen
    /\ UNCHANGED remoteDocs

\* await fileSearch resolved: lines 268-273 and the finally block.
handleSendMessageResolved(t, resp) ==
    /\ t.kind = "send" /\ t.pc = "query"
    /\ chatHistory' = Append(chatHistory, modelMessage(fileSearch(resp)))
    /\ isQueryLoading' = FALSE
    /\ tasks' = tasks \ {t}
    /\ lastEvent' = Event("sendDone", resp.text, IF resp.hasChunks THEN resp.chunks ELSE <<>>)
    /\ UNCHANGED <<status, isApiKeySelected, apiKeyError, error, uploadProgress,
                   activeRagStoreName, documentName, exampleQuestions, files,
                   existingStores, isLoadingStores, libraryError, ai, envVars,
                   mounted, remoteStores, remoteCreated>>
    /\ keepScreen
    /\ UNCHANGED remoteDocs

\* The messages a send task's query can reject with.
sendRejections(t) == IF t.pc = "threw" THEN {MsgNotInitialized} ELSE RemoteErrors

\* await fileSearch rejected: the catch block (274-280) and the finally block.
handleSendMessageRejected(t, msg) ==
    /\ t.kind = "send" /\ msg \in sendRejections(t)
    /\ chatHistory' = Append(chatHistory, errorMessage)
    /\ handleError("Failed to get response", msg)
    /\ isQueryLoading' = FALSE
    /\ tasks' = rendered(tasks \ {t})
    /\ lastEvent' = Event("sendFailed", msg, <<>>)
    /\ UNCHANGED <<isApiKeySelected, apiKeyError, uploadProgress, activeRagStoreName,
                   documentName, exampleQuestions, files, existingStores,
                   isLoadingStores, libraryError, ai, envVars, mounted,
                   remoteStores, remoteCreated>>
    /\ keepScreen
    /\ UNCHANGED remoteDocs

\* A variant of handleEndChat without setFiles([]).
handleEndChatKeepsStaging ==
    /\ mounted /\ status = Chatting
    /\ CanSpawn
    /\ activeRagStoreName' = Null
    /\ chatHistory' = <<>>
    /\ exampleQuestions' = <<>>
    /\ documentName' = ""
    /\ status' = Welcome
    /\ ai' = ensureInitialized(ai, envApiKey)
    /\ isLoadingStores' = TRUE
    /\ libraryError' = Null
    /\ tasks' = tasks \cup {refreshTask(status, ai')}
    /\ lastEvent' = Event("endChat", "", <<>>)
    /\ UNCHANGED <<isApiKeySelected, apiKeyError, error, uploadProgress, files,
                   isQueryLoading, existingStores, envVars, mounted, remoteStores,
                   remoteCreated>>
    /\ keepScreen
    /\ UNCHANGED remoteDocs

\* handleEndChat, the onNewChat prop of the chat screen; it ends by calling
\* loadExistingStores, whose closure holds the status of this render.
handleEndChat ==
    /\ mounted /\ status = Chatting
    /\ CanSpawn
    /\ activeRagStoreName' = Null
    /\ chatHistory' = <<>>
    /\ exampleQuestions' = <<>>
    /\ documentName' = ""
    /\ files' = <<>>
    /\ status' = Welcome
    /\ ai' = ensureInitialized(ai, envApiKey)
    /\ isLoadingStores' = TRUE
    /\ libraryError' = Null
    /\ tasks' = tasks \cup {refreshTask(status, ai')}
    /\ lastEvent' = Event("endChat", "", <<>>)
    /\ UNCHANGED <<isApiKeySelected, apiKeyError, error, uploadProgress,
                   isQueryLoading, existingStores, envVars, mounted, remoteStores,
                   remoteCreated>>
    /\ keepScreen
    /\ UNCHANGED remoteDocs

\* clearError, the "Try Again" button of the error screen.
clearError ==
    /\ mounted /\ status = ErrorStatus
    /\ error' = Null
    /\ status' = Welcome
    /\ lastEvent' = Event("tryAgain", "", <<>>)
    /\ UNCHANGED <<isApiKeySelected, apiKeyError, uploadProgress, activeRagStoreName,
                   documentName, chatHistory, isQueryLoading, exampleQuestions, files,
                   existingStores, isLoadingStores, libraryError, ai, envVars,
                   mounted, remoteStores, remoteCreated, tasks>>
    /\ keepScreen
    /\ UNCHANGED remoteDocs

\* ------------------------------ confirmation dialog (WelcomeScreen)

\* The frame of a block of WelcomeScreen that touches nothing of App.
appSame == UNCHANGED <<appVars, ai, envVars, mounted, remoteStores, remoteCreated>>

\* The confirmation dialog and the management view are full-screen overlays
\* (WelcomeScreen 259-267, 475-482), the dialog above the view: the library
\* list is reachable while neither is shown, the view's controls while no
\* dialog is shown.
listReachable == managingStore = Null /\ ~confirmState.isOpen
viewReachable == managingStore # Null /\ ~confirmState.isOpen

\* A variant of the menu's delete action that deletes at once.
handleMenuActionDeleteDirect(k) ==
    /\ mounted /\ status = Welcome /\ listReachable
    /\ k \in 1..Len(existingStores)
    /\ CanSpawn
    /\ ai' = ensureInitialized(ai, envApiKey)
    /\ tasks' = tasks \cup {[Task(NewTid, "deleteStore", IF ai' THEN "delete" ELSE "threw") EXCEPT
                                !.store = existingStores[k].name]}
    /\ lastEvent' = Event("askDeleteStore", existingStores[k].name, <<>>)
    /\ UNCHANGED <<appVars, envVars, mounted, remoteStores, remoteCreated, screenVars, remoteDocs>>

\* handleMenuAction(e, 'delete', store) for a store of the rendered list:
\* it only opens the confirmation dialog.
handleMenuActionDelete(k) ==
    /\ mounted /\ status = Welcome /\ listReachable
    /\ k \in 1..Len(existingStores)
    /\ confirmState' = [isOpen |-> TRUE, type |-> "store",
                        targetId |-> existingStores[k].name,
                        displayName |-> existingStores[k].displayName]
    /\ lastEvent' = Event("askDeleteStore", existingStores[k].name, <<>>)
    /\ appSame
    /\ UNCHANGED <<managingStore, storeDocuments, isLoadingDocs, processingFile, tasks, remoteDocs>>

\* handleModalDeleteClick(fileName) for a document of the management view.
handleModalDeleteClick(k) ==
    /\ mounted /\ status = Welcome /\ viewReachable
    /\ k \in 1..Len(storeDocuments)
    /\ confirmState' = [isOpen |-> TRUE, type |-> "file",
                        targetId |-> storeDocuments[k].name,
                        displayName |-> storeDocuments[k].name]
    /\ lastEvent' = Event("askDeleteFile", storeDocuments[k].name, <<>>)
    /\ appSame
    /\ UNCHANGED <<managingStore, storeDocuments, isLoadingDocs, processingFile, tasks, remoteDocs>>

\* onCancel of the dialog.
cancelConfirm ==
    /\ mounted /\ status = Welcome
    /\ confirmState.isOpen
    /\ confirmState' = [confirmState EXCEPT !.isOpen = FALSE]
    /\ lastEvent' = Event("cancel", confirmState.targetId, <<confirmState.type>>)
    /\ appSame
    /\ UNCHANGED <<managingStore, storeDocuments, isLoadingDocs, processingFile, tasks, remoteDocs>>

\* prev.filter(d => d.name !== targetId), on stores and on documents.
removeNamed(prev, name) == SelectSeq(prev, LAMBDA d : d.name # name)

\* executeDelete, the dialog's onConfirm.  For a store it calls
\* handleDeleteStore, which runs up to `await deleteRagStore(storeName)`;
\* for a file it removes the document from the list and runs up to
\* `await onDeleteFile(targetId)`, keeping prevDocs for the catch block.
executeDelete ==
    /\ mounted /\ status = Welcome
    /\ confirmState.isOpen
    /\ confirmState' = [confirmState EXCEPT !.isOpen = FALSE]
    /\ LET type == confirmState.type
           targetId == confirmState.targetId
       IN IF type = "store"
          THEN /\ CanSpawn
               /\ ai' = ensureInitialized(ai, envApiKey)
               /\ tasks' = tasks \cup
                     {[Task(NewTid, "deleteStore", IF ai' THEN "delete" ELSE "threw") EXCEPT
                          !.store = targetId]}
               /\ lastEvent' = Event("confirm", targetId, <<type>>)
               /\ UNCHANGED storeDocuments
          ELSE IF managingStore = Null
          THEN /\ lastEvent' = Event("confirmNoView", targetId, <<type>>)
               /\ UNCHANGED <<ai, tasks, storeDocuments>>
          ELSE /\ CanSpawn
               /\ storeDocuments' = removeNamed(storeDocuments, targetId)
               /\ ai' = ensureInitialized(ai, envApiKey)
               /\ tasks' = tasks \cup
                     {[Task(NewTid, "deleteFile", IF ai' THEN "delete" ELSE "threw") EXCEPT
                          !.store = managingStore, !.name = targetId, !.snap = storeDocuments]}
               /\ lastEvent' = Event("confirm", targetId, <<type>>)
    /\ UNCHANGED <<appVars, envVars, mounted, remoteStores, remoteCreated,
                   managingStore, isLoadingDocs, processingFile, remoteDocs>>

\* ------------------------------------------ delete-store (App, 221-232)

\* A variant that leaves the cache as it is.
keepStores(prev, name) == prev

\* setExistingStores(prev => prev.filter(s => s.name !== storeName))
filterStores(prev, name) == removeNamed(prev, name)

\* await deleteRagStore resolved: the provider deleted the store with its
\* documents (force: true); lines 225-227: the entry is removed from the
\* cache and loadExistingStores is called: its list request goes out (the
\* client exists, deleteRagStore has just used it), and its closure is the
\* one of the render in which the dialog was confirmed, whose status was
\* Welcome.
handleDeleteStoreResolved(t) ==
    /\ t.kind = "deleteStore" /\ t.pc = "delete"
    /\ remoteStores' = removeNamed(remoteStores, t.store)
    /\ remoteDocs' = SelectSeq(remoteDocs, LAMBDA d : d.store # t.store)
    /\ existingStores' = filterStores(existingStores, t.store)
    /\ isLoadingStores' = TRUE
    /\ libraryError' = Null
    /\ tasks' = (tasks \ {t}) \cup {Task(t.tid, "refresh", "list")}
    /\ lastEvent' = Event("deleteStoreDone", t.store, <<>>)
    /\ UNCHANGED <<status, isApiKeySelected, apiKeyError, error, uploadProgress,
                   activeRagStoreName, documentName, chatHistory, isQueryLoading,
                   exampleQuestions, files, ai, envVars, mounted, remoteCreated>>
    /\ keepScreen

\* The messages a delete call can reject with.
deleteRejections(t) == IF t.pc = "threw" THEN {MsgNotInitialized} ELSE RemoteErrors

\* A variant of the catch block that reports through handleError.
handleDeleteStoreRejectedFatal(t, msg) ==
    /\ t.kind = "deleteStore" /\ msg \in deleteRejections(t)
    /\ handleError("Failed to delete store", msg)
    /\ tasks' = rendered(tasks \ {t})
    /\ lastEvent' = Event("deleteStoreFailed", MsgDeleteFailed, <<t.store>>)
    /\ UNCHANGED <<isApiKeySelected, apiKeyError, uploadProgress,
                   activeRagStoreName, documentName, chatHistory, isQueryLoading,
                   exampleQuestions, files, existingStores, isLoadingStores,
                   libraryError, ai, envVars, mounted, remoteStores, remoteCreated,
                   remoteDocs>>
    /\ keepScreen

\* await deleteRagStore rejected: the catch block (228-231) logs and shows
\* alert("Failed to delete the document set."); the event holds the text.
handleDeleteStoreRejected(t, msg) ==
    /\ t.kind = "deleteStore" /\ msg \in deleteRejections(t)
    /\ tasks' = tasks \ {t}
    /\ lastEvent' = Event("deleteStoreFailed", MsgDeleteFailed, <<t.store>>)
    /\ UNCHANGED <<appVars, ai, envVars, mounted, remoteStores, remoteCreated,
                   screenVars, remoteDocs>>

\* ----------------------------- document management (WelcomeScreen)

\* listDocuments' map over the files the provider lists for a store.
listDocuments(store) ==
    LET mine == SelectSeq(remoteDocs, LAMBDA d : d.store = store)
    IN [k \in 1..Len(mine) |->
           [name |-> mine[k].name,
            displayName |-> IF mine[k].displayName # "" THEN mine[k].displayName
                            ELSE "Untitled Document"]]

\* handleMenuAction(e, 'files', store) up to `await onGetDocuments`.
handleMenuActionFiles(k) ==
    /\ mounted /\ status = Welcome /\ listReachable
    /\ k \in 1..Len(existingStores)
    /\ CanSpawn
    /\ managingStore' = existingStores[k].name
    /\ isLoadingDocs' = TRUE
    /\ ai' = ensureInitialized(ai, envApiKey)
    /\ tasks' = tasks \cup {[Task(NewTid, "files", IF ai' THEN "list" ELSE "threw") EXCEPT
                                !.store = existingStores[k].name]}
    /\ lastEvent' = Event("openFiles", existingStores[k].name, <<>>)
    /\ UNCHANGED <<appVars, envVars, mounted, remoteStores, remoteCreated,
                   confirmState, storeDocuments, processingFile, remoteDocs>>

\* await onGetDocuments resolved: setStoreDocuments(docs) and the finally
\* block.  An unmounted component's setState calls do nothing.
handleMenuActionFilesResolved(t) ==
    /\ t.kind = "files" /\ t.pc = "list"
    /\ IF t.st THEN UNCHANGED <<storeDocuments, isLoadingDocs>>
       ELSE /\ storeDocuments' = listDocuments(t.store)
            /\ isLoadingDocs' = FALSE
    /\ tasks' = tasks \ {t}
    /\ lastEvent' = Event("filesListed", t.store, <<>>)
    /\ appSame
    /\ UNCHANGED <<confirmState, managingStore, processingFile, remoteDocs>>

\* await onGetDocuments rejected: setManagingStore(null) and the finally block.
handleMenuActionFilesRejected(t, msg) ==
    /\ t.kind = "files" /\ msg \in deleteRejections(t)
    /\ IF t.st THEN UNCHANGED <<managingStore, isLoadingDocs>>
       ELSE /\ managingStore' = Null
            /\ isLoadingDocs' = FALSE
    /\ tasks' = tasks \ {t}
    /\ lastEvent' = Event("filesFailed", t.store, <<>>)
    /\ appSame
    /\ UNCHANGED <<confirmState, storeDocuments, processingFile, remoteDocs>>

\* closeManageModal.
closeManageModal ==
    /\ mounted /\ status = Welcome /\ viewReachable
    /\ managingStore' = Null
    /\ storeDocuments' = <<>>
    /\ lastEvent' = Event("closeFiles", managingStore, <<>>)
    /\ appSame
    /\ UNCHANGED <<confirmState, isLoadingDocs, processingFile, tasks, remoteDocs>>

\* await onDeleteFile resolved: the provider deleted the document;
\* executeDelete does nothing more.
executeDeleteResolved(t) ==
    /\ t.kind = "deleteFile" /\ t.pc = "delete"
    /\ remoteDocs' = removeNamed(remoteDocs, t.name)
    /\ tasks' = tasks \ {t}
    /\ lastEvent' = Event("deleteFileDone", t.name, <<>>)
    /\ appSame
    /\ UNCHANGED screenVars

\* await onDeleteFile rejected: setStoreDocuments(prevDocs).
executeDeleteRejected(t, msg) ==
    /\ t.kind = "deleteFile" /\ msg \in deleteRejections(t)
    /\ IF t.st THEN UNCHANGED storeDocuments ELSE storeDocuments' = t.snap
    /\ tasks' = tasks \ {t}
    /\ lastEvent' = Event("deleteFileFailed", t.name, <<>>)
    /\ appSame
    /\ UNCHANGED <<confirmState, managingStore, isLoadingDocs, processingFile, remoteDocs>>

\* ------------------------------- add-document (WelcomeScreen, 205-218)

\* The files the management view's upload control can hand over.
AddNames == {"notes.pdf"}

\* The resource name the provider gives a document added to a store.
addedDocName(store) == store \o "/doc/new"

\* Nothing in the session or at the provider holds the name: the provider
\* never gives out an id a second time, so a name is given again only once
\* every trace of its earlier use is gone.
unusedDocName(name) ==
    /\ name \notin {remoteDocs[k].name : k \in 1..Len(remoteDocs)}
    /\ name \notin {storeDocuments[k].name : k \in 1..Len(storeDocuments)}
    /\ \A t \in tasks : t.name # name /\ \A k \in 1..Len(t.snap) : t.snap[k].name # name
    /\ confirmState.targetId # name

\* A variant of the re-fetch that appends the fetched list to the local one.
refetchedAppended(prev, docs) == prev \o docs

\* setStoreDocuments(docs) after the re-fetch (line 212).
refetched(prev, docs) == docs

\* handleModalUpload(file, metadata), the onUpload prop of the view's
\* document list, up to `await onAddFileToStore`, which is
\* uploadToRagStore(managingStore.name, file).
handleModalUpload(f) ==
    /\ mounted /\ status = Welcome /\ viewReachable
    /\ CanSpawn
    /\ unusedDocName(addedDocName(managingStore))
    /\ processingFile' = f
    /\ ai' = ensureInitialized(ai, envApiKey)
    /\ tasks' = tasks \cup {[Task(NewTid, "addFile", IF ai' THEN "upload" ELSE "threw") EXCEPT
                                !.store = managingStore, !.name = f]}
    /\ lastEvent' = Event("addDocument", managingStore, <<f>>)
    /\ UNCHANGED <<appVars, envVars, mounted, remoteStores, remoteCreated,
                   confirmState, managingStore, storeDocuments, isLoadingDocs, remoteDocs>>

\* await onAddFileToStore resolved: the operation uploadToRagStore polled is
\* done and the provider holds the document; then line 211 up to
\* `await onGetDocuments(managingStore.name)`.
handleModalUploadUploaded(t, done) ==
    /\ t.kind = "addFile" /\ t.pc = "upload"
    /\ ~pollAgain(done, t.polls)
    /\ remoteDocs' = IF done
                      THEN Append(remoteDocs, [store |-> t.store, name |-> addedDocName(t.store),
                                               displayName |-> t.name])
                      ELSE remoteDocs
    /\ tasks' = (tasks \ {t}) \cup {[t EXCEPT !.pc = "list", !.polls = 0]}
    /\ lastEvent' = Event("addUploaded", t.store, <<t.name>>)
    /\ appSame
    /\ UNCHANGED screenVars

\* await onGetDocuments resolved with the store's documents: line 212 and
\* the finally block.
handleModalUploadListed(t) ==
    /\ t.kind = "addFile" /\ t.pc = "list"
    /\ IF t.st THEN UNCHANGED <<storeDocuments, processingFile>>
       ELSE /\ storeDocuments' = refetched(storeDocuments, listDocuments(t.store))
            /\ processingFile' = Null
    /\ tasks' = tasks \ {t}
    /\ lastEvent' = Event("addListed", t.store, <<t.name>>)
    /\ appSame
    /\ UNCHANGED <<confirmState, managingStore, isLoadingDocs, remoteDocs>>

\* The upload or the re-fetch rejected: the catch block logs, the finally
\* block clears the indicator.
handleModalUploadRejected(t, msg) ==
    /\ t.kind = "addFile" /\ msg \in deleteRejections(t)
    /\ IF t.st THEN UNCHANGED processingFile ELSE processingFile' = Null
    /\ tasks' = tasks \ {t}
    /\ lastEvent' = Event("addFailed", t.store, <<t.pc>>)
    /\ appSame
    /\ UNCHANGED <<confirmState, managingStore, storeDocuments, isLoadingDocs, remoteDocs>>

\* ------------------------------- credential selection (App, 116-128)

\* A variant of the block after the dialog that ends without a check.
openSelectKeyResolvedNoCheck(t) ==
    /\ t.kind = "selectKey" /\ t.pc = "dialog"
    /\ tasks' = tasks \ {t}
    /\ lastEvent' = Event("keyDialogDone", "", <<>>)
    /\ UNCHANGED <<appVars, ai, envVars, mounted, remoteStores, remoteCreated,
                   screenVars, remoteDocs>>

\* handleSelectKey, the onSelectKey prop behind the welcome screen's
\* "Select Gemini API Key to Begin" button, which is rendered while no key
\* is selected: up to `await window.aistudio.openSelectKey()`, or the alert
\* when the host offers no dialog.
handleSelectKey ==
    /\ mounted /\ status = Welcome /\ listReachable
    /\ ~isApiKeySelected
    /\ IF aistudio
       THEN /\ CanSpawn
            /\ tasks' = tasks \cup {Task(NewTid, "selectKey", "dialog")}
            /\ lastEvent' = Event("selectKey", "", <<>>)
       ELSE /\ lastEvent' = Event("selectKeyUnavailable", "", <<>>)
            /\ UNCHANGED tasks
    /\ UNCHANGED <<appVars, ai, envVars, mounted, remoteStores, remoteCreated,
                   screenVars, remoteDocs>>

\* await openSelectKey() resolved: checkApiKey() is called and awaited; it
\* calls hasSelectedApiKey.
openSelectKeyResolved(t) ==
    /\ t.kind = "selectKey" /\ t.pc = "dialog"
    /\ tasks' = (tasks \ {t}) \cup {[t EXCEPT !.pc = "check"]}
    /\ lastEvent' = Event("keyDialogDone", "", <<>>)
    /\ UNCHANGED <<appVars, ai, envVars, mounted, remoteStores, remoteCreated,
                   screenVars, remoteDocs>>

\* await openSelectKey() rejected: the catch block logs; nothing is checked.
openSelectKeyRejected(t) ==
    /\ t.kind = "selectKey" /\ t.pc = "dialog"
    /\ tasks' = tasks \ {t}
    /\ lastEvent' = Event("keyDialogFailed", "", <<>>)
    /\ UNCHANGED <<appVars, ai, envVars, mounted, remoteStores, remoteCreated,
                   screenVars, remoteDocs>>

\* The checkApiKey awaited at line 120 settles; handleSelectKey ends.
handleSelectKeyChecked(t, hasKey) ==
    /\ t.kind = "selectKey" /\ t.pc = "check"
    /\ setIsApiKeySelected(hasKey, t, "dialog")
    /\ UNCHANGED <<apiKeyError, error, uploadProgress, activeRagStoreName,
                   documentName, chatHistory, isQueryLoading, exampleQuestions,
                   files, existingStores, envVars, mounted, remoteStores, remoteCreated>>
    /\ keepScreen
    /\ UNCHANGED remoteDocs

\* ----------------------------------------------------------- next state

CredentialGate == \E hasKey \in {"true", "false", "throw"} : checkApiKey(hasKey)

LibraryCache ==
    \/ loadExistingStores
    \/ \E t \in tasks : listRagStoresAnswered(t)
    \/ \E t \in tasks : loadExistingStoresResolved(t)
    \/ \E t \in tasks : loadExistingStoresRejected(t)

Staging ==
    \/ \E f \in FileNames : addFile(f)
    \/ \E k \in 1..MaxFiles : handleRemoveFile(k)

CreateStore ==
    \/ handleUploadAndStartChat
    \/ \E t \in tasks : createRagStoreResolved(t)
    \/ \E t \in tasks : uploadToRagStorePolling(t)
    \/ \E t \in tasks : \E done \in BOOLEAN : uploadToRagStoreResolved(t, done)
    \/ \E t \in tasks : createRunFinished(t)
    \/ \E t \in tasks : \E msg \in createRejections(t) : createRunFailed(t, msg)

SelectExisting ==
    \/ \E k \in 1..(MaxCreated + 1) : handleSelectExistingStore(k)
    \/ \E t \in tasks : \E resp \in QuestionResponses : handleSelectExistingStoreSettled(t, resp)

ChatDriver ==
    \/ \E text \in UserTexts : handleSendMessage(text)
    \/ \E t \in tasks : \E resp \in AnswerResponses : handleSendMessageResolved(t, resp)
    \/ \E t \in tasks : \E msg \in sendRejections(t) : handleSendMessageRejected(t, msg)
    \/ handleEndChat

ConfirmDialog ==
    \/ \E k \in 1..(MaxCreated + 1) : handleMenuActionDelete(k)
    \/ cancelConfirm
    \/ executeDelete

DeleteStore ==
    \/ \E t \in tasks : handleDeleteStoreResolved(t)
    \/ \E t \in tasks : \E msg \in deleteRejections(t) : handleDeleteStoreRejected(t, msg)

Documents ==
    \/ \E k \in 1..(MaxCreated + 1) : handleMenuActionFiles(k)
    \/ \E t \in tasks : handleMenuActionFilesResolved(t)
    \/ \E t \in tasks : \E msg \in deleteRejections(t) : handleMenuActionFilesRejected(t, msg)
    \/ closeManageModal
    \/ \E k \in 1..MaxDocs : handleModalDeleteClick(k)
    \/ \E t \in tasks : executeDeleteResolved(t)
    \/ \E t \in tasks : \E msg \in deleteRejections(t) : executeDeleteRejected(t, msg)

AddDocument ==
    \/ \E f \in AddNames : handleModalUpload(f)
    \/ \E t \in tasks : uploadToRagStorePolling(t)
    \/ \E t \in tasks : \E done \in BOOLEAN : handleModalUploadUploaded(t, done)
    \/ \E t \in tasks : handleModalUploadListed(t)
    \/ \E t \in tasks : \E msg \in deleteRejections(t) : handleModalUploadRejected(t, msg)

\* The create-store flow with the credential gate, the library refresh and
\* the staging actions running beside it.
NextCreate == Mount \/ CredentialGate \/ LibraryCache \/ Staging \/ CreateStore \/ clearError

SpecCreate == Init /\ [][NextCreate]_vars

\* The select-existing and chat flows with the credential gate and the
\* library refresh running beside them.
NextChat == Mount \/ CredentialGate \/ LibraryCache \/ SelectExisting \/ ChatDriver \/ clearError

SpecChat == Init /\ [][NextChat]_vars

\* Leaving a chat that was entered with files still staged: staging,
\* select-existing and end-chat with the credential gate and the library
\* refresh running beside them.
NextEndChat ==
    Mount \/ CredentialGate \/ LibraryCache \/ Staging \/ SelectExisting \/ handleEndChat

SpecEndChat == Init /\ [][NextEndChat]_vars

\* The library panel: deleting stores and managing their documents behind
\* the confirmation dialog, with the credential gate and the library refresh
\* running beside them.
NextLibrary ==
    Mount \/ CredentialGate \/ LibraryCache \/ ConfirmDialog \/ DeleteStore \/ Documents

SpecLibrary == Init /\ [][NextLibrary]_vars

ManageView ==
    \/ \E k \in 1..(MaxCreated + 1) : handleMenuActionFiles(k)
    \/ \E t \in tasks : handleMenuActionFilesResolved(t)
    \/ \E t \in tasks : \E msg \in deleteRejections(t) : handleMenuActionFilesRejected(t, msg)
    \/ closeManageModal

\* The management view: opening it, adding documents to the managed store
\* and closing it, with the credential gate and the library refresh running
\* beside it.
NextDocuments == Mount \/ CredentialGate \/ LibraryCache \/ ManageView \/ AddDocument

SpecDocuments == Init /\ [][NextDocuments]_vars

SelectKey ==
    \/ handleSelectKey
    \/ \E t \in tasks : openSelectKeyResolved(t)
    \/ \E t \in tasks : openSelectKeyRejected(t)
    \/ \E t \in tasks : \E hasKey \in {"true", "false", "throw"} : handleSelectKeyChecked(t, hasKey)

\* Selecting a credential through the host's dialog, with the event-driven
\* credential checks, the library refresh and the staging actions running
\* beside it.
NextCredential == Mount \/ CredentialGate \/ LibraryCache \/ Staging \/ SelectKey

SpecCredential == Init /\ [][NextCredential]_vars

\* The file names and the staging sets a create-store run is started from
\* when its display name is examined.
StagedNames == {"manual.pdf", "terms.pdf"}
StagedSets == UNION {[1..n -> StagedNames] : n \in 1..MaxStaged}

\* The welcome screen with a key selected and the library loaded.
LoadedWelcome ==
    /\ status = Welcome
    /\ isApiKeySelected = TRUE
    /\ apiKeyError = Null
    /\ error = Null
    /\ uploadProgress = NoProgress
    /\ activeRagStoreName = Null
    /\ documentName = ""
    /\ chatHistory = <<>>
    /\ isQueryLoading = FALSE
    /\ exampleQuestions = <<>>
    /\ remoteStores \in InitialRemotes
    /\ existingStores = mapStores(remoteStores)
    /\ isLoadingStores = FALSE
    /\ libraryError = Null
    /\ ai = TRUE
    /\ envApiKey = TRUE
    /\ aistudio = TRUE
    /\ mounted = TRUE
    /\ remoteCreated = 0
    /\ tasks = {}
    /\ confirmState = closedConfirm
    /\ managingStore = Null
    /\ storeDocuments = <<>>
    /\ isLoadingDocs = FALSE
    /\ processingFile = Null
    /\ remoteDocs = IF remoteStores = <<>> THEN <<>> ELSE InitialDocs

\* The welcome screen with a key selected, the library loaded and files
\* staged.
InitStaged ==
    /\ LoadedWelcome
    /\ files \in StagedSets
    /\ lastEvent = Event("addFile", "", <<>>)

\* Create-store runs from every staging set of StagedSets.
SpecStaged == InitStaged /\ [][CreateStore]_vars

\* The operation of an upload in flight reports done at some poll.
OperationCompletes ==
    WF_vars(\E t \in tasks : t.kind = "create" /\ uploadToRagStoreResolved(t, TRUE))

\* Create-store runs from every staging set, each upload's operation
\* completing at some time.
SpecPolling == InitStaged /\ [][CreateStore]_vars /\ OperationCompletes

\* ---------------------------- sample documents (WelcomeScreen, 130-150)

\* The fileName of a sample document of the welcome screen.
SampleNames == {"hyundai-i10-manual.pdf"}

\* loadingSample is set: a handleSelectSample of this mount is in flight.
loadingSample == \E t \in tasks : t.kind = "sample" /\ ~t.st

\* handleSelectSample(name, url, fileName) up to `await fetch(url)`.  The
\* sample buttons are rendered while the staging set is empty and are
\* disabled while loadingSample is set.
handleSelectSample(f) ==
    /\ mounted /\ status = Welcome /\ listReachable
    /\ files = <<>>
    /\ ~loadingSample
    /\ CanSpawn
    /\ tasks' = tasks \cup {[Task(NewTid, "sample", "fetch") EXCEPT !.name = f]}
    /\ lastEvent' = Event("selectSample", f, <<>>)
    /\ UNCHANGED <<appVars, ai, envVars, mounted, remoteStores, remoteCreated,
                   screenVars, remoteDocs>>

\* fetch and response.blob() resolved: setFiles(prev => [...prev, file]) on
\* the staging set of App, and the finally block.
handleSelectSampleFetched(t) ==
    /\ t.kind = "sample" /\ t.pc = "fetch"
    /\ Len(files) < MaxStaged
    /\ files' = Append(files, t.name)
    /\ tasks' = tasks \ {t}
    /\ lastEvent' = Event("sampleAdded", t.name, <<>>)
    /\ UNCHANGED <<status, isApiKeySelected, apiKeyError, error, uploadProgress,
                   activeRagStoreName, documentName, chatHistory, isQueryLoading,
                   exampleQuestions, existingStores, isLoadingStores, libraryError,
                   ai, envVars, mounted, remoteStores, remoteCreated, screenVars,
                   remoteDocs>>

\* fetch rejected, the response was not ok or blob() rejected: the catch
\* block logs, the finally block clears loadingSample.
handleSelectSampleFailed(t) ==
    /\ t.kind = "sample" /\ t.pc = "fetch"
    /\ tasks' = tasks \ {t}
    /\ lastEvent' = Event("sampleFailed", t.name, <<>>)
    /\ UNCHANGED <<appVars, ai, envVars, mounted, remoteStores, remoteCreated,
                   screenVars, remoteDocs>>

Sample ==
    \/ \E f \in SampleNames : handleSelectSample(f)
    \/ \E t \in tasks : handleSelectSampleFetched(t)
    \/ \E t \in tasks : handleSelectSampleFailed(t)

\* The welcome screen with a key selected, the library loaded and nothing
\* staged.
InitSample ==
    /\ LoadedWelcome
    /\ files = <<>>
    /\ lastEvent = Event("refreshDone", "same", <<>>)

\* Staging by hand and by sample documents, and create-store runs.
NextSample == Staging \/ Sample \/ CreateStore
SpecSample == InitSample /\ [][NextSample]_vars

\* Every flow at once.  Its state space is beyond what TLC explores in the
\* time a check has, so each flow is checked under its own specification.
Next == NextCreate \/ NextChat \/ NextEndChat \/ NextLibrary \/ NextCredential \/ NextDocuments
        \/ NextSample

Spec == Init /\ [][Next]_vars

\* ---------------------------------------------------------------- claims

\* The tasks of a kind that a step ends while they await pc.
Ended(kind, pc) == {t \in tasks : t.kind = kind /\ t.pc = pc /\ t \notin tasks'}
\* The tasks a step starts.
Started(kind) == {t \in tasks' : t.kind = kind /\ t \notin tasks}
RefreshTasks == {t \in tasks : t.kind = "refresh"}
CreateOps == {"uploadStart", "created", "polling", "uploaded", "registered", "createDone",
              "createRejected", "uploadRejected"}
UploadOps == {"uploadNoKey", "uploadNoFiles", "uploadStart"}
\* The rejections the claims call credential-shaped.
CredentialErrors == {"API key not valid. Please pass a valid API key.",
                     "Requested entity was not found."}

\* The values of a sequence of progress updates at which `current` changed.
RECURSIVE Advancements(_)
Advancements(a) ==
    IF Len(a) <= 1 THEN a
    ELSE IF a[Len(a)] = a[Len(a) - 1] THEN Advancements(SubSeq(a, 1, Len(a) - 1))
    ELSE Append(Advancements(SubSeq(a, 1, Len(a) - 1)), a[Len(a)])

\* C1: the block that ends a successful create-store run leaves status
\* Welcome, an empty staging set, no upload progress and a library cache that
\* is the new store {id returned by createStore, derived name} followed by
\* the cache as it was; the run started from a non-empty staging set; and no
\* block of a create-store run starts or ends a list request.
C1_CreatedStoreIsPrepended ==
    [][ /\ lastEvent'.op = "createDone" =>
             \E t \in Ended("create", "delay") :
                /\ t.files # <<>>
                /\ status' = Welcome
                /\ files' = <<>>
                /\ uploadProgress' = NoProgress
                /\ existingStores' =
                      <<[name |-> t.store, displayName |-> friendlyName(t.files)]>> \o existingStores
                /\ \E k \in 1..Len(remoteStores) :
                      /\ remoteStores[k].name = t.store
                      /\ remoteStores[k].displayName = friendlyName(t.files)
        /\ lastEvent'.op \in CreateOps => RefreshTasks' = RefreshTasks
      ]_vars

\* A create-store run has just ended well while a refresh is still in
\* flight; the new store stands before an entry the cache already held.
C1_Witness ==
    /\ lastEvent.op = "createDone"
    /\ RefreshTasks # {}
    /\ Len(existingStores) = 2
    /\ existingStores[1].name = "store/42"
    /\ existingStores[2].name = "store/7"

\* C2: when an upload of a create-store run fails, the block that ends the
\* run changes neither the staging set nor the library cache nor the active
\* store, leaves no upload progress, and nothing in the session holds the
\* created store's id; the blocks of the run before it changed neither the
\* staging set nor the cache nor the active store.
C2_FailedUploadLeavesSessionIntact ==
    [][ /\ lastEvent'.op = "uploadRejected" =>
             \E t \in Ended("create", "upload") :
                /\ files' = files
                /\ existingStores' = existingStores
                /\ activeRagStoreName' = activeRagStoreName
                /\ activeRagStoreName' # t.store
                /\ uploadProgress' = NoProgress
                /\ \A u \in tasks' : u.store # t.store
        /\ lastEvent'.op \in {"uploadStart", "created", "uploaded", "registered"} =>
             /\ files' = files
             /\ existingStores' = existingStores
             /\ activeRagStoreName' = activeRagStoreName
      ]_vars

\* An upload has just failed after the provider created the store, with the
\* files still staged.
C2_Witness ==
    /\ lastEvent.op = "uploadRejected"
    /\ Len(files) = 2
    /\ \E k \in 1..Len(remoteStores) : remoteStores[k].name = "store/42"
    /\ uploadProgress = NoProgress

\* C3: the values at which a create-store run advanced `current` are
\* 0, 1, 2, ... in this order; once all N files are uploaded there are N + 2
\* of them, the last being N + 1, and the progress then set carries the
\* "registered" message.
C3_ProgressAdvances ==
    /\ \A t \in tasks : t.kind = "create" =>
          LET a == Advancements(t.adv) IN
          /\ \A k \in 1..Len(a) : a[k] = k - 1
          /\ t.pc = "delay" => Len(a) = Len(t.files) + 2
    /\ lastEvent.op = "registered" =>
          /\ uploadProgress # NoProgress
          /\ uploadProgress[1].message = "Registered! updating library..."
          /\ \E t \in tasks : /\ t.kind = "create" /\ t.pc = "delay"
                              /\ uploadProgress[1].current = Len(t.files) + 1

\* A run of two files has just set the "registered" progress.
C3_Witness ==
    /\ lastEvent.op = "registered"
    /\ \E t \in tasks : t.kind = "create" /\ t.pc = "delay" /\ Len(t.files) = 2

\* C4: when createStore or an upload rejects with a credential-shaped
\* message, the block that ends the run sets status Welcome (not Error, and
\* no error message), clears the credential-selected flag, sets the inline
\* credential message and leaves the staging set as it is.
C4_CredentialErrorReturnsToWelcome ==
    [][ (lastEvent'.op \in {"createRejected", "uploadRejected"}
            /\ lastEvent'.msg \in CredentialErrors) =>
          /\ status' = Welcome
          /\ error' = error
          /\ isApiKeySelected' = FALSE
          /\ apiKeyError' = MsgInvalidKey
          /\ files' = files
      ]_vars

\* An upload has just been rejected with "Requested entity was not found."
\* while files are staged.
C4_Witness ==
    /\ lastEvent.op = "uploadRejected"
    /\ lastEvent.msg = "Requested entity was not found."
    /\ files # <<>>
    /\ status = Welcome

\* C5: a create-store run that fails with a message that is not
\* credential-shaped sets status Error with an error message and leaves the
\* credential-selected flag; and the status leaves Error only by "try
\* again", which sets Welcome and clears the error message.
C5_OnlyTryAgainLeavesError ==
    [][ /\ (lastEvent'.op \in {"createRejected", "uploadRejected"}
              /\ lastEvent'.msg \notin CredentialErrors) =>
             /\ status' = ErrorStatus
             /\ error' # Null
             /\ isApiKeySelected' = isApiKeySelected
        /\ (status = ErrorStatus /\ status' # ErrorStatus) =>
             /\ lastEvent'.op = "tryAgain"
             /\ status' = Welcome
             /\ error' = Null
      ]_vars

\* C6 as stated: create-store invoked without a selected credential or with
\* an empty staging set shows a field-level error, starts no remote call and
\* changes neither status nor staging set nor cache nor upload progress.
C6_AbortShowsFieldError ==
    [][ (lastEvent'.op \in UploadOps /\ (~isApiKeySelected \/ files = <<>>)) =>
          /\ apiKeyError' # Null
          /\ tasks' = tasks /\ remoteStores' = remoteStores
          /\ status' = status /\ files' = files
          /\ existingStores' = existingStores /\ uploadProgress' = uploadProgress
      ]_vars

\* C6 as amended: without a selected credential the field-level message is
\* set; with a credential and an empty staging set the handler returns
\* without setting any message; either way no remote call starts and status,
\* staging set, cache and upload progress are unchanged.
C6_AbortChangesNothing ==
    [][ (lastEvent'.op \in UploadOps /\ (~isApiKeySelected \/ files = <<>>)) =>
          /\ ~isApiKeySelected => apiKeyError' = MsgSelectKeyFirst
          /\ (isApiKeySelected /\ files = <<>>) => apiKeyError' = apiKeyError
          /\ tasks' = tasks /\ remoteStores' = remoteStores
          /\ status' = status /\ files' = files
          /\ existingStores' = existingStores /\ uploadProgress' = uploadProgress
      ]_vars

\* create-store was invoked with a credential and nothing staged, and no
\* message is shown.
C6_Witness ==
    /\ lastEvent.op = "uploadNoFiles"
    /\ isApiKeySelected /\ files = <<>>
    /\ apiKeyError = Null

\* C7: the block that ends a select-existing load of store S leaves status
\* Chatting, S the active store, the fetched questions as the example
\* questions, an empty chat history and no upload progress.
C7_SelectEndsChattingWithStore ==
    [][ lastEvent'.op = "selectDone" =>
          \E t \in Ended("select", "questions") :
             /\ status' = Chatting
             /\ activeRagStoreName' = t.store
             /\ exampleQuestions' = lastEvent'.q
             /\ chatHistory' = <<>>
             /\ uploadProgress' = NoProgress
      ]_vars

\* C8: a select-existing load whose question fetch failed (rejection, no
\* text, text that is not JSON, JSON that is no array) ends in Chatting with
\* no example questions; no select-existing load ends through handleError,
\* and none awaits a fetch that found the client uninitialised.
C8_QuestionFailureStillEntersChat ==
    /\ (lastEvent.op = "selectDone" /\ lastEvent.msg # "array") =>
          status = Chatting /\ exampleQuestions = <<>>
    /\ lastEvent.op # "selectFailed"
    /\ \A t \in tasks : t.kind = "select" => t.pc = "questions"

\* A select-existing load has just ended after text that was not JSON.
C8_Witness ==
    /\ lastEvent.op = "selectDone"
    /\ lastEvent.msg = "badjson"
    /\ status = Chatting
    /\ activeRagStoreName = "store/7"

\* C9: with a store active, the block that sends a message appends the user
\* message to the chat history; the block that ends the send appends one
\* more message: the model message with the answer text and the citations
\* when the query resolved, the apology when it rejected, and then it also
\* sets the error message and status Error.
C9_SendAppendsUserThenModel ==
    [][ /\ lastEvent'.op = "sendStart" =>
             \E t \in Started("send") :
                /\ activeRagStoreName # Null /\ t.store = activeRagStoreName
                /\ chatHistory' = Append(chatHistory,
                      [role |-> "user", text |-> t.msg, groundingChunks |-> <<>>])
        /\ lastEvent'.op = "sendDone" =>
             /\ Ended("send", "query") # {}
             /\ chatHistory' = Append(chatHistory,
                   [role |-> "model",
                    text |-> IF lastEvent'.msg # "" THEN lastEvent'.msg ELSE MsgNoAnswer,
                    groundingChunks |-> lastEvent'.q])
             /\ status' = status /\ error' = error
        /\ lastEvent'.op = "sendFailed" =>
             /\ chatHistory' = Append(chatHistory,
                   [role |-> "model", text |-> MsgApology, groundingChunks |-> <<>>])
             /\ error' # Null
             /\ status' = ErrorStatus
      ]_vars

\* A send has just ended with an answer that cites the store: the history
\* is the user message, then the model message.
C9_Witness ==
    /\ lastEvent.op = "sendDone"
    /\ Len(chatHistory) = 2
    /\ chatHistory[1].role = "user"
    /\ chatHistory[2].role = "model"
    /\ chatHistory[2].groundingChunks # <<>>

\* C10: after a send whose query failed the status is still Chatting.
C10_FailedQueryStaysChatting ==
    lastEvent.op = "sendFailed" => status = Chatting

\* C11: a send while no store is active changes neither the chat history
\* nor the in-flight flag nor the status and starts no query.
C11_SendWithoutStoreIsNoOp ==
    [][ (lastEvent'.op \in {"sendNoStore", "sendStart"} /\ activeRagStoreName = Null) =>
          /\ chatHistory' = chatHistory
          /\ isQueryLoading' = isQueryLoading
          /\ status' = status
          /\ tasks' = tasks
      ]_vars

\* A message was sent on the chat screen while no store was active.
C11_Witness ==
    /\ lastEvent.op = "sendNoStore"
    /\ status = Chatting
    /\ activeRagStoreName = Null
    /\ chatHistory = <<>>

\* C12: in every state whose status is not Chatting the chat history is
\* empty.
C12_HistoryEmptyOutsideChat ==
    status # Chatting => chatHistory = <<>>

\* C13: end-chat leaves no active store, an empty chat history, no example
\* questions, an empty staging set and status Welcome, and starts exactly
\* one library refresh and nothing else.
C13_EndChatClearsSession ==
    [][ lastEvent'.op = "endChat" =>
          /\ activeRagStoreName' = Null
          /\ chatHistory' = <<>>
          /\ exampleQuestions' = <<>>
          /\ files' = <<>>
          /\ status' = Welcome
          /\ Cardinality(Started("refresh")) = 1
          /\ tasks' = tasks \cup Started("refresh")
      ]_vars

\* A chat has just been ended and its refresh is in flight.
C13_Witness ==
    /\ lastEvent.op = "endChat"
    /\ status = Welcome
    /\ activeRagStoreName = Null
    /\ files = <<>>
    /\ RefreshTasks # {}

\* C14: the block that ends a successful refresh sets the cache to the
\* fetched list and leaves no library error; the block that ends a failed
\* refresh leaves the cache as it was and a library error set; neither
\* sets the status to Error.
C14_RefreshReplacesOrRetains ==
    [][ /\ lastEvent'.op = "refreshDone" =>
             \E t \in Ended("refresh", "listed") :
                /\ existingStores' = t.snap
                /\ libraryError' = Null
                /\ (status' = ErrorStatus => status = ErrorStatus)
        /\ lastEvent'.op = "refreshFailed" =>
             /\ existingStores' = existingStores
             /\ libraryError' # Null
             /\ (status' = ErrorStatus => status = ErrorStatus)
      ]_vars

\* What the provider can answer a list request in the current state.
ListAnswers == {[ok |-> TRUE, raw |-> remoteStores], [ok |-> FALSE, raw |-> <<>>]}

\* The cache and the library error after a refresh that runs alone from
\* cache c and is answered with ans.
RefreshAlone(c, ans) ==
    IF ans.ok THEN [cache |-> replaceCache(c, mapStores(ans.raw)), err |-> Null]
    ELSE [cache |-> c, err |-> MsgLibraryFailed]

\* C15: a refresh is idempotent.  Its blocks are what RefreshAlone composes
\* (the start clears the library error and keeps the cache, a success sets
\* the cache from the fetched list and keeps the error, a failure keeps the
\* cache and sets the error); a second refresh with the same answer gives
\* the cache and the library error of the first; and a refresh that fetched
\* the list the cache holds changes neither.
C15_RefreshIdempotent ==
    [][ /\ lastEvent'.op \in {"refresh", "keySelected", "endChat"} =>
             existingStores' = existingStores /\ libraryError' = Null
        /\ lastEvent'.op = "refreshDone" =>
             \E t \in Ended("refresh", "listed") :
                /\ existingStores' = replaceCache(existingStores, t.snap)
                /\ libraryError' = libraryError
                /\ t.snap = existingStores => existingStores' = existingStores
        /\ lastEvent'.op = "refreshFailed" =>
             /\ existingStores' = RefreshAlone(existingStores, [ok |-> FALSE, raw |-> <<>>]).cache
             /\ libraryError' = RefreshAlone(existingStores, [ok |-> FALSE, raw |-> <<>>]).err
        /\ \A ans \in ListAnswers :
             LET once == RefreshAlone(existingStores, ans)
             IN RefreshAlone(once.cache, ans) = once
      ]_vars

\* A refresh has just ended that fetched the list the cache already held
\* from an earlier refresh.
C15_Witness ==
    /\ lastEvent.op = "refreshDone"
    /\ lastEvent.msg = "same"
    /\ existingStores # <<>>
    /\ libraryError = Null
    /\ RefreshTasks = {}

\* C16: no two entries of the library cache have the same store id.
C16_CacheIdsUnique ==
    \A j, k \in 1..Len(existingStores) :
        existingStores[j].name = existingStores[k].name => j = k

\* The names of a list of stores or documents.
Names(list) == {list[k].name : k \in 1..Len(list)}
\* The step confirms the dialog for a target of this type.
Confirms(type) == lastEvent'.op = "confirm" /\ lastEvent'.q = <<type>>

\* C17 as stated: the block that confirms a store deletion removes the
\* store from the cache, before the remote delete resolves; and the block
\* that ends the remote delete, resolved or rejected, starts a refresh.
C17_RemovedBeforeRemoteDelete ==
    [][ /\ Confirms("store") => lastEvent'.msg \notin Names(existingStores')
        /\ lastEvent'.op \in {"deleteStoreDone", "deleteStoreFailed"} =>
             Cardinality(Started("refresh")) = 1
      ]_vars

\* C17 as amended: the block that confirms a store deletion leaves the cache
\* as it is and starts the remote delete and no refresh; when the remote
\* delete resolves, the block removes the store from the cache and starts
\* one refresh; when it rejects, the block leaves the cache as it is and
\* starts no refresh.
C17_RemovedAfterRemoteDelete ==
    [][ /\ Confirms("store") =>
             /\ existingStores' = existingStores
             /\ Started("refresh") = {}
             /\ \E t \in Started("deleteStore") :
                   t.store = lastEvent'.msg /\ tasks' = tasks \cup {t}
        /\ lastEvent'.op = "deleteStoreDone" =>
             \E t \in Ended("deleteStore", "delete") :
                /\ existingStores' = SelectSeq(existingStores, LAMBDA e : e.name # t.store)
                /\ Cardinality(Started("refresh")) = 1
        /\ lastEvent'.op = "deleteStoreFailed" =>
             /\ existingStores' = existingStores
             /\ Started("refresh") = {}
      ]_vars

\* A store deletion has been confirmed, its remote delete is in flight and
\* the store is still in the cache.
C17_Witness ==
    /\ lastEvent.op = "confirm" /\ lastEvent.q = <<"store">>
    /\ lastEvent.msg \in Names(existingStores)
    /\ \E t \in tasks : t.kind = "deleteStore" /\ t.pc = "delete" /\ t.store = lastEvent.msg

\* C18 as stated: after the remote delete of a store failed the store is
\* not in the cache, the alert was shown and the status is not Error.
C18_FailedDeleteLeavesStoreAbsent ==
    lastEvent.op = "deleteStoreFailed" =>
        /\ lastEvent.q[1] \notin Names(existingStores)
        /\ lastEvent.msg = "Failed to delete the document set."
        /\ status # ErrorStatus

\* C18 as amended: the block that ends a failed remote delete of a store
\* leaves the cache as it is (nothing was removed from it when the deletion
\* was confirmed, so nothing is there to revert), shows the alert and leaves
\* status and error message as they are.
C18_FailedDeleteChangesNothing ==
    [][ lastEvent'.op = "deleteStoreFailed" =>
          /\ existingStores' = existingStores
          /\ lastEvent'.msg = "Failed to delete the document set."
          /\ status' = status
          /\ error' = error
          /\ status' # ErrorStatus
      ]_vars

\* The remote delete of store/7 has just failed and store/7 is in the
\* cache and at the provider.
C18_Witness ==
    /\ lastEvent.op = "deleteStoreFailed"
    /\ lastEvent.q = <<"store/7">>
    /\ "store/7" \in Names(existingStores)
    /\ "store/7" \in Names(remoteStores)
    /\ status = Welcome

\* C19: the block that confirms a document deletion removes the document
\* from the local list and leaves the remote delete in flight; when the
\* remote delete rejects, the local list is what it was before the deletion,
\* the document in it, and status, error message and dialog are as they
\* were; when it resolves, the document is not in the local list.
C19_DocumentDeleteRollsBack ==
    [][ /\ (Confirms("file") /\ managingStore # Null) =>
             /\ lastEvent'.msg \notin Names(storeDocuments')
             /\ \E t \in Started("deleteFile") :
                   t.name = lastEvent'.msg /\ t.snap = storeDocuments
        /\ lastEvent'.op = "deleteFileFailed" =>
             \E t \in tasks \ tasks' :
                /\ t.kind = "deleteFile"
                /\ storeDocuments' = t.snap
                /\ status' = status /\ error' = error
                /\ confirmState' = confirmState
        /\ lastEvent'.op = "deleteFileDone" =>
             lastEvent'.msg \notin Names(storeDocuments')
      ]_vars

\* C20: a remote delete of a store or of a document starts only in the block
\* that confirms an open dialog of that type naming that target; the block
\* that cancels a dialog changes neither the cache nor the local document
\* list nor the provider's stores and documents, and starts nothing.
C20_DeleteOnlyAfterConfirm ==
    [][ /\ \A t \in Started("deleteStore") :
             /\ confirmState.isOpen /\ confirmState.type = "store"
             /\ confirmState.targetId = t.store
             /\ Confirms("store")
        /\ \A t \in Started("deleteFile") :
             /\ confirmState.isOpen /\ confirmState.type = "file"
             /\ confirmState.targetId = t.name
             /\ Confirms("file")
        /\ lastEvent'.op = "cancel" =>
             /\ existingStores' = existingStores
             /\ storeDocuments' = storeDocuments
             /\ tasks' = tasks
             /\ remoteStores' = remoteStores /\ remoteDocs' = remoteDocs
      ]_vars

\* A dialog naming a listed document was cancelled: no delete is in flight
\* and the document is in the local list and at the provider.
C20_Witness ==
    /\ lastEvent.op = "cancel" /\ lastEvent.q = <<"file">>
    /\ lastEvent.msg \in Names(storeDocuments)
    /\ lastEvent.msg \in Names(remoteDocs)
    /\ \A t \in tasks : t.kind \notin {"deleteStore", "deleteFile"}

\* C21: the status leaves Initializing only in the block that ends a library
\* load attempt (resolved or rejected), and then to Welcome; and no block
\* sets the status to Initializing.
C21_InitializingEndsWithFirstLoad ==
    [][ /\ (status = Initializing /\ status' # Initializing) =>
             /\ status' = Welcome
             /\ lastEvent'.op \in {"refreshDone", "refreshFailed"}
        /\ status # Initializing => status' # Initializing
      ]_vars

\* C22: the status leaves Error only by "try again", which sets Welcome and
\* clears the error message; and whenever the status is not Error there is
\* no error message.
C22_ErrorLeftOnlyByTryAgain ==
    /\ [][ (status = ErrorStatus /\ status' # ErrorStatus) =>
              /\ lastEvent'.op = "tryAgain"
              /\ status' = Welcome
              /\ error' = Null
         ]_vars
    /\ [](status # ErrorStatus => error = Null)

\* The create-store runs and select-existing loads in flight.
RunTasks == {t \in tasks : t.kind \in {"create", "select"}}

\* C23: at most one create-store run or select-existing load is in flight,
\* and while one is in flight the status is Uploading.
C23_AtMostOneRun ==
    /\ Cardinality(RunTasks) <= 1
    /\ RunTasks # {} => status = Uploading

\* The documents the provider holds in a store, in the order it made them.
DocsOf(store) == SelectSeq(remoteDocs, LAMBDA d : d.store = store)

\* The files of a create-store run whose upload has been polled to done.
UploadedCount(t) ==
    IF t.pc = "upload" THEN t.i - 1 ELSE IF t.pc = "delay" THEN Len(t.files) ELSE 0

\* C24: in a create-store run, while createStore is awaited no upload has
\* been made; while file i is uploading, the provider holds the documents of
\* files 1..i-1 of the staging order, in that order, and none of file i or
\* later; every document of the run is in the store createStore returned,
\* which the provider created under the run's name; and the upload of the
\* next file starts only in the block in which the upload of the file
\* before it returned an operation that is done.
C24_UploadsSequentialInOrder ==
    /\ [](\A t \in tasks : t.kind = "create" =>
            /\ t.pc \in {"create", "threw"} => t.store = "" /\ t.i = 0
            /\ t.pc \in {"upload", "delay"} =>
                 /\ \E k \in 1..Len(remoteStores) :
                       remoteStores[k].name = t.store /\ remoteStores[k].displayName = t.name
                 /\ Len(DocsOf(t.store)) = UploadedCount(t)
                 /\ \A k \in 1..Len(DocsOf(t.store)) :
                       /\ DocsOf(t.store)[k].displayName = t.files[k]
                       /\ DocsOf(t.store)[k].name = t.store \o "/doc/" \o ToString(k))
    /\ [][ lastEvent'.op \in {"uploaded", "registered"} =>
             \E t \in Ended("create", "upload") :
                /\ Len(remoteDocs') = Len(remoteDocs) + 1
                /\ remoteDocs'[Len(remoteDocs')].store = t.store
                /\ remoteDocs'[Len(remoteDocs')].displayName = t.files[t.i]
                /\ \A u \in Started("create") :
                      /\ u.store = t.store
                      /\ u.i = IF lastEvent'.op = "uploaded" THEN t.i + 1 ELSE t.i
         ]_vars

\* The second file of a run is uploading after at least one poll, and the
\* provider holds the document of the first file in the run's store.
C24_Witness ==
    \E t \in tasks :
       /\ t.kind = "create" /\ t.pc = "upload" /\ t.i = 2 /\ t.polls > 0
       /\ Len(DocsOf(t.store)) = 1
       /\ DocsOf(t.store)[1].name = "store/42/doc/1"

\* C25: the block that ends a send, resolved or rejected, leaves the
\* in-flight flag false; and whenever the flag is false no query is
\* outstanding.
C25_FlagFalseMeansNoQuery ==
    /\ [][ lastEvent'.op \in {"sendDone", "sendFailed"} => isQueryLoading' = FALSE ]_vars
    /\ [](~isQueryLoading => sendTasks = {})

\* The presence checks a step starts on behalf of handleSelectKey.
ChecksStarted == {t \in tasks' : t.kind = "selectKey" /\ t.pc = "check" /\ t \notin tasks}

\* C26 as stated: the block that follows the host's credential dialog,
\* whether the dialog resolved or rejected, starts exactly one presence check.
C26_RecheckAfterEveryDialog ==
    [][ lastEvent'.op \in {"keyDialogDone", "keyDialogFailed"} =>
          Cardinality(ChecksStarted) = 1
      ]_vars

\* C26 as amended: when the host's credential dialog resolves, the block
\* that follows starts exactly one presence check and changes nothing else;
\* when the dialog rejects, the block starts no presence check and leaves the
\* credential flag and the status as they are; no other block starts a
\* presence check for handleSelectKey, and the block in which the check
\* settles starts none.
C26_RecheckOnceWhenDialogResolves ==
    [][ /\ lastEvent'.op = "keyDialogDone" =>
             /\ Cardinality(ChecksStarted) = 1
             /\ \E t \in Ended("selectKey", "dialog") : tasks' = (tasks \ {t}) \cup ChecksStarted
             /\ isApiKeySelected' = isApiKeySelected /\ status' = status
        /\ lastEvent'.op = "keyDialogFailed" =>
             /\ ChecksStarted = {}
             /\ \E t \in Ended("selectKey", "dialog") : tasks' = tasks \ {t}
             /\ isApiKeySelected' = isApiKeySelected /\ status' = status
        /\ lastEvent'.op \notin {"keyDialogDone", "keyDialogFailed"} => ChecksStarted = {}
        /\ Ended("selectKey", "check") # {} =>
             /\ lastEvent'.msg = "dialog"
             /\ \A t \in tasks' : t.kind # "selectKey" \/ t \in tasks
      ]_vars

\* The host's dialog resolved, the one presence check it led to found a key,
\* and the library load that follows is in flight.
C26_Witness ==
    /\ lastEvent.op = "keySelected" /\ lastEvent.msg = "dialog"
    /\ isApiKeySelected
    /\ RefreshTasks # {}
    /\ \A t \in tasks : t.kind # "selectKey"

\* C27: the display name of a create-store run started with N staged files
\* is the file's name when N = 1 and "<first filename> + <N-1> others" when
\* N > 1; it is the displayName of the store the provider creates for the
\* run and of the entry the run's last block puts at the head of the cache.
C27_DisplayNameDerivedFromFiles ==
    [][ /\ lastEvent'.op = "created" =>
             \E t \in Ended("create", "create") :
                LET n == Len(t.files)
                    expected == IF n = 1 THEN t.files[1]
                                ELSE t.files[1] \o " + " \o ToString(n - 1) \o " others"
                IN /\ n >= 1
                   /\ Len(remoteStores') = Len(remoteStores) + 1
                   /\ remoteStores'[Len(remoteStores')].displayName = expected
        /\ lastEvent'.op = "createDone" =>
             \E t \in Ended("create", "delay") :
                LET n == Len(t.files)
                    expected == IF n = 1 THEN t.files[1]
                                ELSE t.files[1] \o " + " \o ToString(n - 1) \o " others"
                IN /\ existingStores'[1].name = t.store
                   /\ existingStores'[1].displayName = expected
      ]_vars

\* A run started with three files has just ended, and the entry at the head
\* of the cache is named after the first file and the two others.
C27_Witness ==
    /\ lastEvent.op = "createDone"
    /\ existingStores # <<>>
    /\ existingStores[1].displayName = "terms.pdf + 2 others"
    /\ \E k \in 1..Len(remoteStores) : remoteStores[k].displayName = "terms.pdf + 2 others"

\* What the provider lists for a store: name and display name of each of
\* its documents, in the provider's order.
Listing(store) ==
    LET mine == SelectSeq(remoteDocs, LAMBDA d : d.store = store)
    IN [k \in 1..Len(mine) |-> [name |-> mine[k].name, displayName |-> mine[k].displayName]]

\* C28: add-document uploads the file into the managed store (the provider
\* holds the new document in that store when the upload has resolved) and
\* only then re-fetches; the block that ends a successful re-fetch leaves the
\* local list equal to the provider's listing of that store and the
\* indicator cleared; the block that ends a failed upload or a failed
\* re-fetch leaves the view open and the local list as it was and clears the
\* indicator; the block that ends a failed initial fetch closes the view.
C28_AddDocumentRefetches ==
    [][ /\ lastEvent'.op = "addDocument" =>
             \E t \in Started("addFile") :
                /\ t.store = managingStore /\ managingStore # Null
                /\ remoteDocs' = remoteDocs /\ storeDocuments' = storeDocuments
        /\ lastEvent'.op = "addUploaded" =>
             \E t \in Ended("addFile", "upload") :
                /\ Len(remoteDocs') = Len(remoteDocs) + 1
                /\ remoteDocs'[Len(remoteDocs')].store = t.store
                /\ remoteDocs'[Len(remoteDocs')].displayName = t.name
                /\ storeDocuments' = storeDocuments
                /\ \E u \in Started("addFile") : u.pc = "list" /\ u.store = t.store
        /\ lastEvent'.op = "addListed" =>
             \E t \in Ended("addFile", "list") :
                /\ storeDocuments' = Listing(t.store)
                /\ processingFile' = Null
                /\ managingStore' = managingStore
        /\ lastEvent'.op = "addFailed" =>
             /\ managingStore' = managingStore
             /\ storeDocuments' = storeDocuments
             /\ processingFile' = Null
             /\ status' = status
        /\ lastEvent'.op = "filesFailed" =>
             managingStore' = Null
      ]_vars

\* A document was added to store/7 while its view was open: the re-fetch
\* has just ended and the local list is the three documents the provider
\* holds, the new one last.
C28_Witness ==
    /\ lastEvent.op = "addListed"
    /\ managingStore = "store/7"
    /\ Len(storeDocuments) = 3
    /\ storeDocuments[3].displayName = "notes.pdf"
    /\ processingFile = Null

\* The blocks of a create-store run after its first.
RunSteps == {"created", "polling", "uploaded", "registered"}

\* C29: upload progress, when present, has 0 <= current <= total; while a
\* create-store run is in flight and progress is present, total is the
\* number of the run's files plus 2; a block that continues a run does not
\* lower current; and progress is absent whenever no create-store run and no
\* select-existing load is in flight.
C29_ProgressMonotoneAndReset ==
    /\ [](uploadProgress # NoProgress =>
            /\ 0 <= uploadProgress[1].current
            /\ uploadProgress[1].current <= uploadProgress[1].total
            /\ \A t \in tasks : t.kind = "create" =>
                  uploadProgress[1].total = Len(t.files) + 2)
    /\ [](RunTasks = {} => uploadProgress = NoProgress)
    /\ [][ (lastEvent'.op \in RunSteps /\ uploadProgress # NoProgress) =>
              /\ uploadProgress' # NoProgress
              /\ uploadProgress'[1].current >= uploadProgress[1].current
         ]_vars

\* The status changes of the session state machine, as pairs <<from, to>>.
AllowedChanges ==
    { <<Initializing, Welcome>>, <<Welcome, Uploading>>, <<Uploading, Welcome>>,
      <<Uploading, Chatting>>, <<Chatting, Welcome>>, <<ErrorStatus, Welcome>> }
        \cup { <<s, ErrorStatus>> : s \in {Initializing, Welcome, Uploading, Chatting} }

\* C30: every step that changes the status changes it along one of
\* Initializing->Welcome, Welcome->Uploading, Uploading->Welcome,
\* Uploading->Chatting, Chatting->Welcome, any->Error, Error->Welcome.
C30_OnlyListedStatusChanges ==
    [][ status' # status => <<status, status'>> \in AllowedChanges ]_vars

\* The create-store runs that are uploading their file number k.
UploadingFile(k) == {t \in tasks : t.kind = "create" /\ t.pc = "upload" /\ t.i = k}

CheckOps == {"checkApiKey", "keySelected", "keyLost"}

\* C32: the block in which a credential check settles (the check made on
\* mount, on window focus, on the tab becoming visible, or after the host's
\* dialog) sets the selected flag to what the host reported, and to false
\* when the query failed; without the host capability the flag is false in
\* every state; and no check settles before the component has mounted.
C32_FlagFollowsReportedPresence ==
    /\ [][ lastEvent'.op \in CheckOps =>
              /\ mounted
              /\ aistudio => isApiKeySelected' = (lastEvent'.q = <<"true">>)
              /\ ~aistudio => isApiKeySelected' = FALSE
         ]_vars
    /\ [](~aistudio => ~isApiKeySelected)

\* A key was selected and a later check failed: the flag is false again.
C32_Witness ==
    /\ lastEvent.op = "keyLost"
    /\ lastEvent.q = <<"throw">>
    /\ ~isApiKeySelected
    /\ existingStores # <<>>

\* C33: the block in which a credential check settles that reported no
\* credential changes the status only from Initializing, to Welcome, and
\* leaves the active store and the chat history as they are.
C33_KeyLossLeavesSession ==
    [][ (lastEvent'.op \in CheckOps /\ lastEvent'.q # <<"true">>) =>
          /\ status' # status => (status = Initializing /\ status' = Welcome)
          /\ activeRagStoreName' = activeRagStoreName
          /\ chatHistory' = chatHistory
      ]_vars

\* C34: the block that ends a send, resolved or rejected, runs while the
\* status is Chatting, the store the query was issued against is the active
\* store and the query's user message is in the chat history; a send that
\* ends in any other state changes neither the chat history nor the status.
C34_AnswersBelongToSession ==
    [][ lastEvent'.op \in {"sendDone", "sendFailed"} =>
          \E t \in tasks \ tasks' :
             /\ t.kind = "send"
             /\ \/ /\ status = Chatting
                   /\ activeRagStoreName = t.store
                   /\ \E k \in 1..Len(chatHistory) :
                         chatHistory[k].role = "user" /\ chatHistory[k].text = t.msg
                \/ /\ chatHistory' = chatHistory
                   /\ status' = status
      ]_vars

\* C35: a document deleted at the provider does not come back into the
\* document list of the open management view: while the view's store
\* exists, the rollback of a failed deletion adds to the list only
\* documents the provider still holds.
C35_RollbackRestoresOnlyFailed ==
    [][ ( /\ lastEvent'.op = "deleteFileFailed"
          /\ managingStore # Null
          /\ \E j \in 1..Len(remoteStores) : remoteStores[j].name = managingStore ) =>
          \A k \in 1..Len(storeDocuments') :
             \/ \E j \in 1..Len(remoteDocs) :
                   remoteDocs[j].name = storeDocuments'[k].name
             \/ \E j \in 1..Len(storeDocuments) :
                   storeDocuments[j].name = storeDocuments'[k].name
      ]_vars

\* C36: a refresh that resolves does not take out of the Library Cache a
\* store the provider holds: the entry a successful create-store run
\* inserted stays when a list fetched before the store existed arrives
\* after the insert.
C36_StaleRefreshKeepsInsert ==
    [][ lastEvent'.op = "refreshDone" =>
          \A k \in 1..Len(existingStores) :
             (\E j \in 1..Len(remoteStores) : remoteStores[j].name = existingStores[k].name)
             => \E j \in 1..Len(existingStores') :
                   existingStores'[j].name = existingStores[k].name
      ]_vars

\* The positions of a sequence of file names that hold the name n.
Holding(fs, n) == {k \in 1..Len(fs) : fs[k] = n}

\* C37: every file the end of a successful create-store run takes out of
\* the staging set is a document of the new store: for every name the
\* staging set holds it no more often than the store holds documents of
\* that name.
C37_ClearedFilesWereUploaded ==
    [][ lastEvent'.op = "createDone" =>
          \A t \in tasks \ tasks' :
             t.kind = "create" =>
                \A k \in 1..Len(files) :
                   Cardinality(Holding(files, files[k])) <=
                   Cardinality({j \in 1..Len(remoteDocs) :
                                  /\ remoteDocs[j].store = t.store
                                  /\ remoteDocs[j].displayName = files[k]})
      ]_vars

\* C38: whenever the status is Welcome no store is active.
C38_WelcomeHasNoActiveStore ==
    status = Welcome => activeRagStoreName = Null

\* C39: the document list is empty whenever no management view is open, and
\* a block that ends a document fetch, an add-document re-fetch or a
\* document deletion of a view for another store than the open one changes
\* neither the open view nor its list.
C39_ListBelongsToOpenView ==
    /\ [](managingStore = Null => storeDocuments = <<>>)
    /\ [][ lastEvent'.op \in {"filesListed", "filesFailed", "addListed", "deleteFileFailed"} =>
             \A t \in tasks \ tasks' :
                \/ t.store = managingStore
                \/ /\ managingStore' = managingStore
                   /\ storeDocuments' = storeDocuments
         ]_vars

====
